---- MODULE Spec2Model ----
(***************************************************************************)
(* VisionSorter: colour clustering / detection service.                    *)
(*                                                                         *)
(* Modelled here: the detection routine process_single_image, the          *)
(* synchronous endpoint POST /api/detect-images, the streaming endpoint    *)
(* WS /ws/detect-images, the clustering engine                             *)
(* cluster_images_by_color_de2000 and POST /api/cluster-images.            *)
(*                                                                         *)
(* Abstractions of third-party code (stated once, used everywhere):        *)
(*  - a LAB vector is a triple <<L, a, b>> of integers in tenths of a      *)
(*    Delta-E unit; skimage's deltaE_ciede2000 is replaced by the L1       *)
(*    distance (zero on equal vectors, symmetric, non-negative);           *)
(*  - max_scale is an integer in tenths (11 stands for 1.1), so            *)
(*    "d <= intra_max * max_scale" reads 10*d <= intra_max*max_scale;      *)
(*  - sklearn's AgglomerativeClustering is its contract: labels_ maps      *)
(*    every sample to one label of 0..n_clusters-1, every label used;      *)
(*  - Python's None is the empty tuple <<>>, a present value x is <<x>>;   *)
(*  - a path is the file's number; sorted() orders paths by PathKey.       *)
(***************************************************************************)
EXTENDS Integers, Sequences, FiniteSets, TLC

VARIABLES
    fs,               \* the file system under image_dir (fixed per behaviour)
    wsPc,             \* position of the websocket handler
    init_data,        \* the init message of the websocket session
    image_paths,      \* websocket handler: sorted image list
    idx,              \* websocket handler: index of the next image
    classified_count, \* websocket handler: images with a matched cluster
    sent,             \* messages delivered to the websocket client, in order
    inbox,            \* ASGI events queued for the handler (client -> server)
    clientGone,       \* the client has disconnected
    client_state,     \* starlette's WebSocket.client_state
    wsExit,           \* how the websocket handler ended
    wsClosed,         \* websocket.close() was called by the handler
    http,             \* the last HTTP request handled and its outcome
    db,               \* the committed content of vision_sorter.db
    now,              \* datetime.utcnow(), in whole seconds
    dev,              \* scripts/dev.py: the orchestrator and its children
    pool,             \* the generators' worker pool and its shared list
    cli               \* the run of a command-line utility and what it wrote

vars == <<fs, wsPc, init_data, image_paths, idx, classified_count, sent, inbox,
          clientGone, client_state, wsExit, wsClosed, http, db, now,
          dev, pool, cli>>

scriptVars == <<dev, pool, cli>>

wsVars == <<wsPc, init_data, image_paths, idx, classified_count, sent, inbox,
            clientGone, client_state, wsExit, wsClosed>>

---------------------------------------------------------------------------
(* Bounds *)

MaxFiles == 4
MaxInbox == 1

---------------------------------------------------------------------------
(* Python values *)

None == <<>>

Some(x) == <<x>>

DictGet(d, k, default) == IF k \in DOMAIN d THEN d[k] ELSE default

Truthy(v) == DOMAIN v # {}

Abs(x) == IF x < 0 THEN -x ELSE x

RECURSIVE SeqSum(_)
SeqSum(s) == IF s = <<>> THEN 0 ELSE Head(s) + SeqSum(Tail(s))

RECURSIVE Concat(_)
Concat(ss) == IF ss = <<>> THEN <<>> ELSE Head(ss) \o Concat(Tail(ss))

Range(s) == {s[i] : i \in DOMAIN s}

---------------------------------------------------------------------------
(* vision_sorter.db after init_db: three empty tables.  A table is the    *)
(* sequence of its rows in rowid order; sqlite_sequence holds the largest  *)
(* id ever committed by each AUTOINCREMENT table.                          *)

EmptyDb ==
    [cluster_results |-> <<>>, detection_results |-> <<>>, task_images |-> <<>>,
     sqlite_sequence |-> [cluster_results |-> 0, detection_results |-> 0,
                          task_images |-> 0]]

\* The database is not used by the endpoints that keep nothing.
DbIdle == db = EmptyDb /\ now = 0

\* No command-line utility runs beside the service.
ScriptsIdle == dev = [pc |-> "idle"] /\ pool = [pc |-> "idle"] /\ cli = [op |-> "none"]

---------------------------------------------------------------------------
(* The directory image_dir and its files *)

\* Extensions of the files 1, 2, 3, ... of the directory, cyclically.
ExtCycle == <<"jpg", "JPG", "png", "tif", "txt">>

FileExt(f) == ExtCycle[((f - 1) % Len(ExtCycle)) + 1]

\* File names sort in the reverse of their numbers, so that the order
\* in which glob finds the files is not the sorted order.
PathKey(f) == 0 - f

UpperExt == [jpg |-> "JPG", jpeg |-> "JPEG", png |-> "PNG", bmp |-> "BMP",
             tiff |-> "TIFF", tif |-> "TIF"]

\* os.path.normcase on a case-insensitive file system
NormCase(e) ==
    IF \E l \in DOMAIN UpperExt : UpperExt[l] = e
    THEN CHOOSE l \in DOMAIN UpperExt : UpperExt[l] = e
    ELSE e

RECURSIVE SetToSortedSeq(_)
SetToSortedSeq(S) ==
    IF S = {} THEN <<>>
    ELSE LET m == CHOOSE x \in S : \A y \in S : PathKey(x) <= PathKey(y)
         IN <<m>> \o SetToSortedSeq(S \ {m})

RECURSIVE SetToSeqById(_)
SetToSeqById(S) ==
    IF S = {} THEN <<>>
    ELSE LET m == CHOOSE x \in S : \A y \in S : x <= y
         IN <<m>> \o SetToSeqById(S \ {m})

\* glob.glob(os.path.join(image_dir, "*." + ext))
Glob(dir, ext) ==
    SetToSeqById({f \in 1..dir.n :
        IF dir.ci THEN NormCase(FileExt(f)) = NormCase(ext)
        ELSE FileExt(f) = ext})

\* for ext in image_extensions: extend(glob(ext)); extend(glob(ext.upper()))
EnumerateImages(dir, exts) ==
    Concat([i \in 1..Len(exts) |->
        Glob(dir, exts[i]) \o Glob(dir, UpperExt[exts[i]])])

RECURSIVE InsertSorted(_, _)
InsertSorted(s, x) ==
    IF s = <<>> THEN <<x>>
    ELSE IF PathKey(x) < PathKey(Head(s)) THEN <<x>> \o s
    ELSE <<Head(s)>> \o InsertSorted(Tail(s), x)

SortedNoSort(s) == s

RECURSIVE Sorted(_)
\* sorted(image_paths)
Sorted(s) == IF s = <<>> THEN <<>> ELSE InsertSorted(Sorted(Tail(s)), Head(s))

DetectExtensions == <<"jpg", "jpeg", "png", "bmp", "tiff", "tif">>

\* extract_lab_from_image: the LAB triple, or None when cv2.imread fails
\* (the code raises ValueError there)
ExtractLab(dir, path) == dir.lab[path]

---------------------------------------------------------------------------
(* process_single_image *)

DeltaE(p, q) == Abs(p[1] - q[1]) + Abs(p[2] - q[2]) + Abs(p[3] - q[3])

RECURSIVE NearestFrom(_, _, _, _)
\* the loop over clusters.items(): best is None or <<cluster_id, distance>>
NearestFrom(lab_new, clusters, k, best) ==
    IF k > Len(clusters) THEN best
    ELSE LET lab_mean == DictGet(clusters[k], "lab_mean", <<>>)
         IN IF Len(lab_mean) # 3
            THEN NearestFrom(lab_new, clusters, k + 1, best)
            ELSE LET distance == DeltaE(lab_new, lab_mean)
                 IN IF best = None \/ distance < best[2]
                    THEN NearestFrom(lab_new, clusters, k + 1, <<k - 1, distance>>)
                    ELSE NearestFrom(lab_new, clusters, k + 1, best)

WithinThresholdNoScale(distance, de2000_intra_max, max_scale) ==
    distance <= de2000_intra_max

\* best_distance <= de2000_intra_max * max_scale (max_scale in tenths)
WithinThreshold(distance, de2000_intra_max, max_scale) ==
    10 * distance <= de2000_intra_max * max_scale

process_single_image(dir, image_path, clusters, max_scale) ==
    LET lab_new == ExtractLab(dir, image_path)
    IN IF lab_new = None
       THEN [path |-> image_path, lab |-> None, matched_cluster_id |-> None,
             distance |-> None, status |-> "failed"]
       ELSE LET best == NearestFrom(lab_new, clusters, 1, None)
            IN IF best = None
               THEN [path |-> image_path, lab |-> lab_new,
                     matched_cluster_id |-> None, distance |-> None,
                     status |-> "unclassified"]
               ELSE LET cluster_info == clusters[best[1] + 1]
                        de2000_intra_max ==
                            DictGet(cluster_info, "de2000_intra_max", 0)
                    IN IF WithinThreshold(best[2], de2000_intra_max, max_scale)
                       THEN [path |-> image_path, lab |-> lab_new,
                             matched_cluster_id |-> Some(best[1]),
                             distance |-> Some(best[2]),
                             status |-> "classified"]
                       ELSE [path |-> image_path, lab |-> lab_new,
                             matched_cluster_id |-> None,
                             distance |-> Some(best[2]),
                             status |-> "too_far"]

---------------------------------------------------------------------------
(* Inputs: directories, calibrations, init messages *)

Lab(x) == <<x, 0, 0>>

\* Directories with the files 1..n, each unreadable (None) or holding an
\* image whose LAB vector is one of labs; ci: case-insensitive file system.
Dirs(labs) ==
    UNION {{[n |-> n, ci |-> c, lab |-> l] :
               c \in BOOLEAN, l \in [1..n -> labs \cup {None}]} :
           n \in 0..MaxFiles}

ClusterInfo(lab_mean, intra_max) ==
    [lab_mean |-> lab_mean, de2000_intra_max |-> intra_max]

\* Calibrations of the streaming sessions: one cluster that accepts the
\* image at 5.4; two clusters of which the first has no usable centre and
\* the second is too narrow for that image.
WsCalibrations ==
    {<<ClusterInfo(Lab(0), 50)>>,
     <<ClusterInfo(<<>>, 50), ClusterInfo(Lab(100), 40)>>}

WsDirs == Dirs({Lab(54)})

WsInitChoices ==
    {[image_dir |-> d, cluster_result |-> c] :
        d \in {"", "missing", "file", "dir"},
        c \in {[kind |-> "null"], [kind |-> "dict"],
               [kind |-> "dict", clusters |-> <<>>]}
              \cup {[kind |-> "dict", clusters |-> k] : k \in WsCalibrations}}

---------------------------------------------------------------------------
(* WS /ws/detect-images *)

DefaultMaxScale == 11

StartMsg(total) == [type |-> "start", total |-> total]

ProgressMsg(index, total, result) ==
    [type |-> "progress", index |-> index, total |-> total, result |-> result]

CancelledMsgOffByOne(processed, total) ==
    [type |-> "cancelled", processed |-> processed + 1, total |-> total]

CancelledMsg(processed, total) ==
    [type |-> "cancelled", processed |-> processed, total |-> total]

CompletedMsgAllClassified(total, classified) ==
    [type |-> "completed", total |-> total, classified |-> total]

CompletedMsg(total, classified) ==
    [type |-> "completed", total |-> total, classified |-> classified]

ErrorMsg(message) == [type |-> "error", message |-> message]

\* The two wire forms of the cancel signal and an unrelated text frame, as
\* the ASGI server hands them to websocket.receive(): a text frame carries
\* the keys "type" and "text" and nothing else.
JsonCancelText == "{\"type\":\"cancel\"}"

TextFrame(text) == [type |-> "websocket.receive", text |-> text]

DisconnectEvent == [type |-> "websocket.disconnect"]

ClientTexts == {"cancel", JsonCancelText, "ping"}

\* lines 1090-1094: the test deciding whether a received event cancels
IsCancel(cancel_data) ==
    /\ DictGet(cancel_data, "type", "") = "websocket.receive"
    /\ LET text_data == DictGet(cancel_data, "text", "")
           json_data == DictGet(cancel_data, "json", None)
       IN \/ text_data = "cancel"
          \/ (Truthy(json_data) /\ DictGet(json_data, "type", "") = "cancel")

WsValidateNoImageCheck(init, dir) ==
    IF init.image_dir # "dir" THEN "no_dir"
    ELSE IF init.cluster_result.kind # "dict" THEN "exception"
    ELSE IF ~Truthy(DictGet(init.cluster_result, "clusters", <<>>))
    THEN "no_clusters"
    ELSE "ok"

\* lines 1035-1071: the outcome of validating the init message
WsValidate(init, dir) ==
    IF init.image_dir # "dir" THEN "no_dir"
    ELSE IF init.cluster_result.kind # "dict" THEN "exception"
    ELSE IF ~Truthy(DictGet(init.cluster_result, "clusters", <<>>))
    THEN "no_clusters"
    ELSE IF EnumerateImages(dir, DetectExtensions) = <<>> THEN "no_images"
    ELSE "ok"

WsClusters == DictGet(init_data.cluster_result, "clusters", <<>>)

WsMaxScale == DictGet(init_data, "max_scale", DefaultMaxScale)

\* What a send does: delivered while the client is there; once the client
\* is gone the transport either drops the frame silently or raises
\* (starlette turns the OSError into WebSocketDisconnect).
SendOutcomes == IF clientGone THEN {"dropped", "raised"} ELSE {"delivered"}

Emit(outcome, msg) == IF outcome = "delivered" THEN Append(sent, msg) ELSE sent

\* except WebSocketDisconnect: pass
ExitDisconnect ==
    /\ wsPc' = "done"
    /\ wsExit' = "disconnect"
    /\ UNCHANGED <<sent, wsClosed>>

\* except Exception: try send_json(error) except: pass; then close().
\* With the client gone the error send is dropped or raises (swallowed),
\* and close() either returns or raises out of the handler.
ExitError(message) ==
    /\ wsPc' = "done"
    /\ wsClosed' = TRUE
    /\ IF clientGone
       THEN /\ sent' = sent
            /\ wsExit' \in {"error", "error_escaped"}
       ELSE /\ sent' = Append(sent, ErrorMsg(message))
            /\ wsExit' = "error"

\* The client's init message arrives: receive_json, validation, start.
WsReceiveInit ==
    /\ wsPc = "init"
    /\ UNCHANGED <<fs, scriptVars, http, db, now, inbox, clientGone, idx, classified_count>>
    /\ IF clientGone
       THEN /\ ExitDisconnect
            /\ client_state' = "DISCONNECTED"
            /\ UNCHANGED <<init_data, image_paths>>
       ELSE /\ UNCHANGED client_state
            /\ \E d \in WsInitChoices :
                /\ init_data' = d
                /\ LET v == WsValidate(d, fs)
                   IN CASE v = "ok" ->
                             /\ image_paths' =
                                  Sorted(EnumerateImages(fs, DetectExtensions))
                             /\ sent' = Append(sent, StartMsg(Len(image_paths')))
                             /\ wsPc' = IF Len(image_paths') > 0
                                        THEN "poll" ELSE "complete"
                             /\ UNCHANGED <<wsExit, wsClosed>>
                        [] v = "exception" ->
                             /\ ExitError("exception")
                             /\ UNCHANGED image_paths
                        [] OTHER ->
                             /\ sent' = Append(sent, ErrorMsg(v))
                             /\ wsClosed' = TRUE
                             /\ wsExit' = "returned"
                             /\ wsPc' = "done"
                             /\ UNCHANGED image_paths

\* Top of the loop body: asyncio.wait_for(websocket.receive(), 0.01)
WsPoll ==
    /\ wsPc = "poll"
    /\ UNCHANGED <<fs, scriptVars, http, db, now, init_data, image_paths, idx, classified_count,
                   clientGone>>
    /\ IF client_state = "DISCONNECTED"
       THEN \* receive() after a disconnect event raises RuntimeError
            /\ ExitError("exception")
            /\ UNCHANGED <<inbox, client_state>>
       ELSE IF inbox = <<>>
       THEN \* asyncio.TimeoutError: no cancel signal
            /\ wsPc' = "process"
            /\ UNCHANGED <<inbox, client_state, sent, wsExit, wsClosed>>
       ELSE LET cancel_data == Head(inbox)
            IN /\ inbox' = Tail(inbox)
               /\ client_state' =
                    IF cancel_data.type = "websocket.disconnect"
                    THEN "DISCONNECTED" ELSE client_state
               /\ IF IsCancel(cancel_data)
                  THEN \E o \in SendOutcomes :
                         IF o = "raised" THEN ExitDisconnect
                         ELSE /\ sent' = Emit(o, CancelledMsg(idx, Len(image_paths)))
                              /\ wsPc' = "complete"
                              /\ UNCHANGED <<wsExit, wsClosed>>
                  ELSE /\ wsPc' = "process"
                       /\ UNCHANGED <<sent, wsExit, wsClosed>>

\* Rest of the loop body: process the image, count, send progress.
WsProcess ==
    /\ wsPc = "process"
    /\ UNCHANGED <<fs, scriptVars, http, db, now, init_data, image_paths, inbox, clientGone,
                   client_state>>
    /\ LET result == process_single_image(fs, image_paths[idx + 1],
                                          WsClusters, WsMaxScale)
       IN /\ classified_count' =
               IF result.matched_cluster_id # None
               THEN classified_count + 1 ELSE classified_count
          /\ \E o \in SendOutcomes :
               IF o = "raised"
               THEN ExitDisconnect /\ UNCHANGED idx
               ELSE /\ sent' = Emit(o, ProgressMsg(idx, Len(image_paths), result))
                    /\ idx' = idx + 1
                    /\ wsPc' = IF idx + 1 < Len(image_paths)
                               THEN "poll" ELSE "complete"
                    /\ UNCHANGED <<wsExit, wsClosed>>

\* After the loop (exhausted or left by break): send completed.
WsComplete ==
    /\ wsPc = "complete"
    /\ UNCHANGED <<fs, scriptVars, http, db, now, init_data, image_paths, idx, classified_count,
                   inbox, clientGone, client_state>>
    /\ \E o \in SendOutcomes :
         IF o = "raised" THEN ExitDisconnect
         ELSE /\ sent' = Emit(o, CompletedMsg(Len(image_paths), classified_count))
              /\ wsPc' = "done"
              /\ wsExit' = "returned"
              /\ UNCHANGED wsClosed

\* The client sends a text frame during the stream.
ClientSend ==
    /\ wsPc \in {"poll", "process", "complete"}
    /\ ~clientGone
    /\ Len(inbox) < MaxInbox
    /\ \E t \in ClientTexts : inbox' = Append(inbox, TextFrame(t))
    /\ UNCHANGED <<fs, scriptVars, http, db, now, wsPc, init_data, image_paths, idx,
                   classified_count, sent, clientGone, client_state, wsExit,
                   wsClosed>>

\* The client goes away: the server queues a disconnect event.
ClientDisconnect ==
    /\ wsPc # "done"
    /\ ~clientGone
    /\ clientGone' = TRUE
    /\ inbox' = Append(inbox, DisconnectEvent)
    /\ UNCHANGED <<fs, scriptVars, http, db, now, wsPc, init_data, image_paths, idx,
                   classified_count, sent, client_state, wsExit, wsClosed>>

WsServer == WsReceiveInit \/ WsPoll \/ WsProcess \/ WsComplete

NextWs == WsServer \/ ClientSend \/ ClientDisconnect

InitWs ==
    /\ fs \in WsDirs
    /\ wsPc = "init"
    /\ init_data = [image_dir |-> "", cluster_result |-> [kind |-> "null"]]
    /\ image_paths = <<>>
    /\ idx = 0
    /\ classified_count = 0
    /\ sent = <<>>
    /\ inbox = <<>>
    /\ clientGone = FALSE
    /\ client_state = "CONNECTED"
    /\ wsExit = "running"
    /\ wsClosed = FALSE
    /\ http = [op |-> "none"]
    /\ DbIdle
    /\ ScriptsIdle

SpecWs == InitWs /\ [][NextWs]_vars

\* The event loop keeps running the handler's coroutine.
SpecWsFair == SpecWs /\ WF_vars(WsServer)

---------------------------------------------------------------------------
(* POST /api/detect-images *)

HttpLabs == {Lab(54), Lab(56)}

HttpDirs == Dirs(HttpLabs)

\* Cluster entries of a client-supplied calibration: the centre may be
\* unusable (not three numbers), de2000_intra_max may be absent.
ClusterInfos ==
    {ClusterInfo(m, 50) : m \in {<<>>, Lab(0), Lab(100)}}
    \cup {[lab_mean |-> m] : m \in {<<>>, Lab(0), Lab(100)}}

Calibrations ==
    {<<>>} \cup {<<c>> : c \in ClusterInfos}
           \cup {<<c, d>> : c \in ClusterInfos, d \in ClusterInfos}

DetectRequests ==
    {[image_dir |-> "missing", cluster_result |-> [clusters |-> <<>>],
      max_scale |-> DefaultMaxScale]}
    \cup {[image_dir |-> "dir", cluster_result |-> [clusters |-> k],
           max_scale |-> m] : k \in Calibrations, m \in {10, DefaultMaxScale}}
    \cup {[image_dir |-> "dir", cluster_result |-> [task_name |-> "t"],
           max_scale |-> DefaultMaxScale]}

\* [process_single_image(p) for p in sorted(image_paths)]
DetectAll(dir, paths, clusters, max_scale) ==
    [i \in 1..Len(paths) |->
        process_single_image(dir, paths[i], clusters, max_scale)]

detect_images(request, dir) ==
    IF request.image_dir # "dir"
    THEN [op |-> "detect", req |-> request, status |-> 400]
    ELSE LET image_paths_ == EnumerateImages(dir, DetectExtensions)
             clusters == DictGet(request.cluster_result, "clusters", <<>>)
         IN IF image_paths_ = <<>>
            THEN [op |-> "detect", req |-> request, status |-> 400]
            ELSE IF ~Truthy(clusters)
            THEN [op |-> "detect", req |-> request, status |-> 400]
            ELSE LET detection_results ==
                         DetectAll(dir, Sorted(image_paths_), clusters,
                                   request.max_scale)
                 IN [op |-> "detect", req |-> request, status |-> 200,
                     results |-> detection_results,
                     total |-> Len(detection_results),
                     classified |-> Cardinality(
                         {i \in DOMAIN detection_results :
                            detection_results[i].matched_cluster_id # None})]

\* One request per behaviour: the handler keeps no state between requests.
HttpDetect ==
    /\ http.op = "none"
    /\ \E r \in DetectRequests : http' = detect_images(r, fs)
    /\ UNCHANGED <<fs, scriptVars, wsVars, db, now>>

\* The websocket handler is idle in the HTTP specifications.
WsIdle ==
    /\ wsPc = "init"
    /\ init_data = [image_dir |-> "", cluster_result |-> [kind |-> "null"]]
    /\ image_paths = <<>>
    /\ idx = 0
    /\ classified_count = 0
    /\ sent = <<>>
    /\ inbox = <<>>
    /\ clientGone = FALSE
    /\ client_state = "CONNECTED"
    /\ wsExit = "running"
    /\ wsClosed = FALSE

InitDetect ==
    /\ fs \in HttpDirs
    /\ http = [op |-> "none"]
    /\ DbIdle
    /\ ScriptsIdle
    /\ WsIdle

NextDetect == HttpDetect

SpecDetect == InitDetect /\ [][NextDetect]_vars

---------------------------------------------------------------------------
(* cluster_images_by_color_de2000 and POST /api/cluster-images *)

MaxClusters == 3

ClusterExtensions == <<"jpg", "jpeg", "png", "bmp">>

SeqMax(s) ==
    IF s = <<>> THEN 0 ELSE CHOOSE m \in Range(s) : \A x \in Range(s) : x <= m

\* np.mean(cluster_lab_vectors, axis=0), rounded down to the model's unit
MeanLab(vectors) ==
    [c \in 1..3 |->
        SeqSum([i \in 1..Len(vectors) |-> vectors[i][c]]) \div Len(vectors)]

\* sklearn contract: the labelings AgglomerativeClustering may return
Labelings(n, k) ==
    {l \in [1..n -> 0..(k - 1)] : \A c \in 0..(k - 1) : \E i \in 1..n : l[i] = c}

ClusterIndicesAtLeast(labels, cluster_id) ==
    SetToSeqById({i \in 0..(Len(labels) - 1) : labels[i + 1] >= cluster_id})

\* np.where(labels == cluster_id)[0]
ClusterIndices(labels, cluster_id) ==
    SetToSeqById({i \in 0..(Len(labels) - 1) : labels[i + 1] = cluster_id})

\* lines 150-166: the distances of all pairs i < j of the cluster
PairDistances(vectors) ==
    Concat([i \in 1..Len(vectors) |->
        [j \in 1..(Len(vectors) - i) |-> DeltaE(vectors[i], vectors[i + j])]])

\* lines 130-179: one cluster's entry (the standard deviations are left out)
ClusterEntry(lab_vectors, image_paths_, labels, cluster_id) ==
    LET cluster_indices == ClusterIndices(labels, cluster_id)
        cluster_lab_vectors ==
            [i \in 1..Len(cluster_indices) |-> lab_vectors[cluster_indices[i] + 1]]
        lab_mean == MeanLab(cluster_lab_vectors)
        de2000_distances ==
            [i \in 1..Len(cluster_lab_vectors) |->
                DeltaE(lab_mean, cluster_lab_vectors[i])]
        cluster_distances == PairDistances(cluster_lab_vectors)
    IN [images |-> [i \in 1..Len(cluster_indices) |->
                       image_paths_[cluster_indices[i] + 1]],
        indices |-> cluster_indices,
        lab_mean |-> lab_mean,
        de2000_mean |->
            IF de2000_distances = <<>> THEN 0
            ELSE SeqSum(de2000_distances) \div Len(de2000_distances),
        de2000_max |-> SeqMax(de2000_distances),
        de2000_intra_mean |->
            IF Len(cluster_indices) > 1 /\ cluster_distances # <<>>
            THEN SeqSum(cluster_distances) \div Len(cluster_distances) ELSE 0,
        de2000_intra_max |->
            IF Len(cluster_indices) > 1 THEN SeqMax(cluster_distances) ELSE 0,
        count |-> Len(cluster_indices)]

\* lines 85-99: n_samples == n_clusters, one cluster per sample
SingletonEntry(lab_vectors, image_paths_, i) ==
    [images |-> <<image_paths_[i + 1]>>,
     indices |-> <<i>>,
     lab_mean |-> lab_vectors[i + 1],
     de2000_mean |-> 0,
     de2000_max |-> 0,
     count |-> 1]

\* The outcomes of one engine call: an exception, or the dict of clusters
\* (a sequence: cluster_id c is entry c + 1), one per possible labeling.
cluster_images_by_color_de2000(lab_vectors, image_paths_, n_clusters) ==
    LET n_samples == Len(lab_vectors)
    IN IF n_samples < n_clusters
       THEN {[raised |-> "ValueError", n_samples |-> n_samples]}
       ELSE IF n_samples = n_clusters
       THEN {[n_samples |-> n_samples,
              clusters |-> [c \in 1..n_samples |->
                  SingletonEntry(lab_vectors, image_paths_, c - 1)]]}
       ELSE IF n_clusters < 1
       THEN {[raised |-> "InvalidParameterError", n_samples |-> n_samples]}
       ELSE {[n_samples |-> n_samples,
              clusters |-> [c \in 1..n_clusters |->
                  ClusterEntry(lab_vectors, image_paths_, labels, c - 1)]] :
             labels \in Labelings(n_samples, n_clusters)}

\* sorted(list(set(image_paths)))
SortedSet(paths) == SetToSortedSeq(Range(paths))

\* lines 492-498: the paths whose LAB vector could be extracted, in order
ValidPaths(dir, paths) ==
    SelectSeq(paths, LAMBDA p : ExtractLab(dir, p) # None)

\* lines 518-532: one entry per member of every cluster
ImagesInfo(clusters, lab_vectors) ==
    Concat([c \in 1..Len(clusters) |->
        [k \in 1..Len(clusters[c].images) |->
            [path |-> clusters[c].images[k],
             lab |-> lab_vectors[clusters[c].indices[k] + 1],
             cluster_id |-> c - 1]]])

\* calculate_inter_cluster_distance: Delta-E over all pairs of centres
\* (the standard deviation is left out; the mean is rounded down)
calculate_inter_cluster_distance(clusters) ==
    IF Len(clusters) < 2 THEN [mean |-> 0, min |-> 0, max |-> 0]
    ELSE LET inter_distances ==
                 PairDistances([c \in DOMAIN clusters |-> clusters[c].lab_mean])
         IN [mean |-> SeqSum(inter_distances) \div Len(inter_distances),
             min |-> CHOOSE m \in Range(inter_distances) :
                        \A x \in Range(inter_distances) : m <= x,
             max |-> SeqMax(inter_distances)]

ResponseKeys == {"count", "lab_mean", "de2000_max", "de2000_intra_mean",
                 "de2000_intra_max", "images"}

\* lines 534-556: info['...'] raises KeyError on a missing key
ResponseClusters(clusters) ==
    IF \A c \in DOMAIN clusters : ResponseKeys \subseteq DOMAIN clusters[c]
    THEN Some([c \in DOMAIN clusters |->
            [cluster_id |-> c - 1,
             count |-> clusters[c].count,
             lab_mean |-> clusters[c].lab_mean,
             de2000_max |-> clusters[c].de2000_max,
             de2000_intra_mean |-> clusters[c].de2000_intra_mean,
             de2000_intra_max |-> clusters[c].de2000_intra_max,
             image_paths |-> clusters[c].images]])
    ELSE None

\* The outcomes of POST /api/cluster-images on a request.
cluster_images(request, dir) ==
    LET base == [op |-> "cluster", req |-> request, engine |-> None]
    IN IF request.image_dir # "dir"
       THEN {base @@ [status |-> 400]}
       ELSE LET image_paths_ ==
                    SortedSet(EnumerateImages(dir, ClusterExtensions))
                valid_paths == ValidPaths(dir, image_paths_)
                lab_vectors ==
                    [i \in 1..Len(valid_paths) |-> ExtractLab(dir, valid_paths[i])]
            IN IF Len(image_paths_) = 0
               THEN {base @@ [status |-> 400]}
               ELSE IF Len(image_paths_) < request.n_clusters
               THEN {base @@ [status |-> 400]}
               ELSE IF Len(lab_vectors) = 0
               THEN {base @@ [status |-> 400]}
               ELSE {LET called == [base EXCEPT !.engine = Some(e)]
                     IN IF "raised" \in DOMAIN e
                        THEN called @@ [status |-> 500]
                        ELSE LET images_info == ImagesInfo(e.clusters, lab_vectors)
                                 out == ResponseClusters(e.clusters)
                             IN IF out = None
                                THEN called @@ [status |-> 500,
                                                images_info |-> images_info]
                                ELSE called @@
                                     [status |-> 200,
                                      images_info |-> images_info,
                                      inter_cluster_stats |->
                                          calculate_inter_cluster_distance(
                                              e.clusters),
                                      total_images |-> Len(valid_paths),
                                      n_clusters |-> request.n_clusters,
                                      images |-> images_info,
                                      clusters |-> out[1]] :
                     e \in cluster_images_by_color_de2000(
                              lab_vectors, valid_paths, request.n_clusters)}

ClusterLabs == {Lab(0), Lab(10), Lab(100)}

ClusterDirs == Dirs(ClusterLabs)

ClusterRequests ==
    {[image_dir |-> d, n_clusters |-> k] :
        d \in {"missing", "file", "dir"}, k \in 0..MaxClusters}

\* One request per behaviour: the handler keeps no state between requests.
HttpCluster ==
    /\ http.op = "none"
    /\ \E r \in ClusterRequests : http' \in cluster_images(r, fs)
    /\ UNCHANGED <<fs, scriptVars, wsVars, db, now>>

InitCluster ==
    /\ fs \in ClusterDirs
    /\ http = [op |-> "none"]
    /\ DbIdle
    /\ ScriptsIdle
    /\ WsIdle

NextCluster == HttpCluster

SpecCluster == InitCluster /\ [][NextCluster]_vars

---------------------------------------------------------------------------
(* Claims: detection *)

ValidCentre(clusters, c) == Len(DictGet(clusters[c], "lab_mean", <<>>)) = 3

DistTo(lab, clusters, c) == DeltaE(lab, clusters[c].lab_mean)

\* distance to c's centre <= c's de2000_intra_max x max_scale
WithinOf(lab, clusters, c, max_scale) ==
    /\ ValidCentre(clusters, c)
    /\ 10 * DistTo(lab, clusters, c)
         <= DictGet(clusters[c], "de2000_intra_max", 0) * max_scale

\* c is the first cluster at the least distance among the usable centres
IsNearest(lab, clusters, c) ==
    /\ ValidCentre(clusters, c)
    /\ \A d \in DOMAIN clusters :
         ValidCentre(clusters, d) =>
            \/ DistTo(lab, clusters, c) < DistTo(lab, clusters, d)
            \/ (DistTo(lab, clusters, c) = DistTo(lab, clusters, d) /\ c <= d)

DetectDone == http.op = "detect" /\ http.status = 200

\* C1 as stated: for every image whose LAB vector was extracted and every
\* cluster C of the calibration, matched_cluster_id is C if and only if the
\* image's distance to C's centre is <= C's de2000_intra_max x max_scale.
C1_MatchedIffWithinThreshold ==
    DetectDone =>
        \A i \in DOMAIN http.results :
            \A c \in DOMAIN http.req.cluster_result.clusters :
                LET r == http.results[i]
                IN r.lab # None =>
                    ((r.matched_cluster_id = Some(c - 1))
                     <=> WithinOf(r.lab, http.req.cluster_result.clusters, c,
                                  http.req.max_scale))

\* C1 amended: matched_cluster_id is C if and only if the LAB vector was
\* extracted, C is the nearest cluster (the first one at the least distance
\* among the clusters with a three-number centre) and the distance to C's
\* centre is <= C's de2000_intra_max x max_scale.
C1_MatchedIffNearestWithinThreshold ==
    DetectDone =>
        \A i \in DOMAIN http.results :
            \A c \in DOMAIN http.req.cluster_result.clusters :
                LET r == http.results[i]
                    clusters == http.req.cluster_result.clusters
                IN (r.matched_cluster_id = Some(c - 1))
                   <=> (/\ r.lab # None
                        /\ IsNearest(r.lab, clusters, c)
                        /\ WithinOf(r.lab, clusters, c, http.req.max_scale))

\* max_scale 1.1, intra-max 5.0 (threshold 5.5): the image at distance 5.4
\* is classified into the cluster, the image at distance 5.6 is not.
C1_Witness ==
    /\ DetectDone
    /\ http.req.max_scale = DefaultMaxScale
    /\ http.req.cluster_result.clusters = <<ClusterInfo(Lab(0), 50)>>
    /\ \E i \in DOMAIN http.results :
         /\ http.results[i].distance = Some(54)
         /\ http.results[i].matched_cluster_id = Some(0)
    /\ \E i \in DOMAIN http.results :
         /\ http.results[i].distance = Some(56)
         /\ http.results[i].matched_cluster_id = None

---------------------------------------------------------------------------
(* Claims: the streaming session *)

Started == sent # <<>> /\ sent[1].type = "start"

Positions(type) == {i \in DOMAIN sent : sent[i].type = type}

ProgressBefore(p) == {i \in 1..(p - 1) : sent[i].type = "progress"}

\* The progress messages before position p carry the indices 0..k-1 in order.
ProgressPrefixOk(p) ==
    \A i \in ProgressBefore(p) : sent[i].index = Cardinality(ProgressBefore(i))

CancelCommon(p) ==
    /\ sent[p].processed = Cardinality(ProgressBefore(p))
    /\ sent[p].processed = idx
    /\ ProgressPrefixOk(p)
    /\ sent[p].total = Len(image_paths)
    /\ sent[1] = StartMsg(Len(image_paths))
    /\ Positions("cancelled") = {p}
    /\ \A q \in (p + 1)..Len(sent) : sent[q].type # "progress"

\* C2 as stated: once the cancel signal was observed at the poll before
\* image k, exactly k progress messages (indices 0..k-1) were emitted, then
\* one cancelled message with processed=k and total=N, and the session
\* holds no completed message.
C2_CancelledNoCompleted ==
    \A p \in Positions("cancelled") :
        CancelCommon(p) /\ Positions("completed") = {}

\* C2 amended: ... then one cancelled message with processed=k and total=N,
\* no further progress message, and the only message after it is one
\* completed message (total=N), which a handler that returned with the
\* client connected has sent.
C2_CancelledThenCompleted ==
    \A p \in Positions("cancelled") :
        /\ CancelCommon(p)
        /\ \A q \in (p + 1)..Len(sent) :
             q = p + 1 /\ sent[q].type = "completed"
                       /\ sent[q].total = Len(image_paths)
        /\ (wsPc = "done" /\ ~clientGone) => Len(sent) = p + 1

\* cancelled at k = 2 of N >= 3, then completed
C2_Witness ==
    /\ wsPc = "done"
    /\ ~clientGone
    /\ Len(image_paths) >= 3
    /\ \E p \in Positions("cancelled") :
         /\ sent[p].processed = 2
         /\ Cardinality(ProgressBefore(p)) = 2
         /\ Len(sent) = p + 1
         /\ sent[p + 1].type = "completed"

\* C3: a text frame "cancel" or {"type":"cancel"} read by the poll before
\* an image makes the handler emit cancelled and process no further image.
C3_BothWireFormsCancel ==
    [][(/\ wsPc = "poll"
        /\ wsPc' # "poll"
        /\ client_state = "CONNECTED"
        /\ inbox # <<>>
        /\ Head(inbox).type = "websocket.receive"
        /\ Head(inbox).text \in {"cancel", JsonCancelText})
       => (/\ wsPc' # "process"
           /\ idx' = idx
           /\ (~clientGone =>
                 sent' = Append(sent, CancelledMsg(idx, Len(image_paths)))))]_vars

\* C4: the i-th progress message carries index i-1 and the result of the
\* (i-1)-th path of the sorted image list; paths never go back in sort
\* order; every progress message follows the start message and none
\* follows a cancelled or completed message.
C4_ProgressInOrder ==
    \A i \in Positions("progress") :
        LET k == Cardinality(ProgressBefore(i))
        IN /\ sent[i].index = k
           /\ k < Len(image_paths)
           /\ sent[i].result.path = image_paths[k + 1]
           /\ sent[i].total = Len(image_paths)
           /\ sent[1].type = "start"
           /\ \A j \in 1..(i - 1) :
                /\ sent[j].type \notin {"cancelled", "completed"}
                /\ sent[j].type = "progress" =>
                     PathKey(sent[j].result.path) <= PathKey(sent[i].result.path)
           /\ \A m \in 1..k : PathKey(image_paths[m]) <= PathKey(image_paths[k + 1])

\* three images streamed in sorted order, which is not the glob order
C4_Witness ==
    /\ Cardinality(Positions("progress")) >= 3
    /\ \E i \in Positions("progress") : \E j \in Positions("progress") :
         i < j /\ sent[i].result.path > sent[j].result.path

ClassifiedSent ==
    Cardinality({i \in Positions("progress") :
                    sent[i].result.matched_cluster_id # None})

C5_FinalState ==
    (wsPc = "done" /\ ~clientGone /\ Started) =>
        /\ Positions("completed") = {Len(sent)}
        /\ sent[Len(sent)].total = sent[1].total
        /\ sent[Len(sent)].classified = ClassifiedSent

\* C5: a session that emitted start and whose client stays connected
\* eventually ends, and then its last message is its only completed
\* message, with the start message's total and with classified = the
\* number of progress messages whose result has a matched cluster -
\* after a full run and after a cancellation alike.
C5_CompletedIsFinal ==
    /\ [](C5_FinalState)
    /\ ((Started /\ ~clientGone) ~> (wsPc = "done" \/ clientGone))

\* a cancelled session that ended with completed, some image classified
C5_Witness ==
    /\ wsPc = "done"
    /\ ~clientGone
    /\ Positions("cancelled") # {}
    /\ Positions("completed") = {Len(sent)}
    /\ ClassifiedSent >= 1
    /\ ClassifiedSent < Cardinality(Positions("progress"))

\* C6: when the client disconnects after the start message, the handler
\* ends through the ordinary path: never through the error branch and
\* with no exception escaping.
C6_DisconnectIsOrdinary ==
    (Started /\ clientGone) => wsExit \notin {"error", "error_escaped"}

\* the files a detection run supports, whatever the case of the extension
SupportedByDetect(dir) ==
    {f \in 1..dir.n :
        \E e \in Range(DetectExtensions) : FileExt(f) \in {e, UpperExt[e]}}

BadInit ==
    \/ init_data.image_dir # "dir"
    \/ ~Truthy(DictGet(init_data.cluster_result, "clusters", <<>>))
    \/ SupportedByDetect(fs) = {}

\* C7: an init message naming a missing or non-directory image_dir, or
\* carrying no clusters, or a directory without supported image: exactly
\* one error message, then close; no start, progress, cancelled or
\* completed message and no image processed.
C7_InvalidInitOneError ==
    (wsPc = "done" /\ ~clientGone /\ BadInit) =>
        /\ Len(sent) = 1
        /\ sent[1].type = "error"
        /\ wsClosed
        /\ idx = 0
        /\ classified_count = 0

\* an existing directory and a calibration, but no image in the directory
C7_Witness ==
    /\ wsPc = "done"
    /\ ~clientGone
    /\ init_data.image_dir = "dir"
    /\ Truthy(DictGet(init_data.cluster_result, "clusters", <<>>))
    /\ SupportedByDetect(fs) = {}
    /\ Len(sent) = 1
    /\ sent[1].type = "error"
    /\ wsClosed

---------------------------------------------------------------------------
(* Claims: clustering *)

\* the image files of the directory the clustering endpoint supports
SupportedByCluster(dir) ==
    {f \in 1..dir.n :
        \E e \in Range(ClusterExtensions) : FileExt(f) \in {e, UpperExt[e]}}

ReadableByCluster(dir) == {f \in SupportedByCluster(dir) : dir.lab[f] # None}

EngineReturned ==
    /\ http.op = "cluster"
    /\ http.engine # None
    /\ "clusters" \in DOMAIN http.engine[1]

C9_SingletonsWithZeroIntra ==
    (/\ http.op = "cluster"
     /\ http.req.image_dir = "dir"
     /\ http.req.n_clusters >= 1
     /\ Cardinality(SupportedByCluster(fs)) = http.req.n_clusters
     /\ Cardinality(ReadableByCluster(fs)) = http.req.n_clusters)
    => /\ http.status = 200
       /\ Len(http.clusters) = http.req.n_clusters
       /\ \A c \in DOMAIN http.clusters :
            /\ http.clusters[c].count = 1
            /\ http.clusters[c].de2000_intra_mean = 0
            /\ http.clusters[c].de2000_intra_max = 0

\* C10: a request whose directory yields no image, fewer images than
\* n_clusters, or fewer extracted LAB vectors than n_clusters is answered
\* 400 and never reaches the clustering engine.
C10_TooFewImagesRejected ==
    (/\ http.op = "cluster"
     /\ http.req.image_dir = "dir"
     /\ \/ SupportedByCluster(fs) = {}
        \/ Cardinality(SupportedByCluster(fs)) < http.req.n_clusters
        \/ Cardinality(ReadableByCluster(fs)) < http.req.n_clusters)
    => /\ http.status = 400
       /\ http.engine = None

---------------------------------------------------------------------------
(* utils/db.py: the persistence layer                                      *)
(*                                                                         *)
(*  - a JSON text is [valid, value, form]: json.loads keeps the value and  *)
(*    forgets the form (spacing, key order, escapes); json.dumps writes    *)
(*    the value in Python's own form, so dumps(loads(t)) is not t;         *)
(*  - a JSON object is a record; a JSON value of another type standing     *)
(*    where an object is expected is a record with the one key "json";     *)
(*  - a file name is a tuple of characters; a path is a string, and        *)
(*    "<dict>" is a nested object there, which sqlite3 cannot bind;        *)
(*  - the clock now counts ticks, TicksPerSecond of them in a second;      *)
(*    created_at has second precision.                                     *)

TicksPerSecond == 2

batch_size == 500

json_dumps(v) == [valid |-> TRUE, value |-> v, form |-> "dumps"]

\* json.loads raises on a text that is not JSON
json_loads(t) == IF t.valid THEN [value |-> t.value] ELSE [raised |-> "JSONDecodeError"]

IsObject(v) == "json" \notin DOMAIN v

DictDel(d, k) == [x \in (DOMAIN d) \ {k} |-> d[x]]

Min(a, b) == IF a < b THEN a ELSE b

\* datetime.utcnow().isoformat(timespec="seconds") + "Z"
IsoSeconds(t) == t \div TicksPerSecond

\* sqlite3 binds None, numbers and text; binding a dict raises
Bindable(v) == v # "<dict>"

\* the tuple insert_task_images_batch appends to data_to_insert for img
ImageTuple(task_db_id, task_type, img, created_at) ==
    LET lab_data == DictGet(img, "lab", <<>>)
        common == [task_db_id |-> task_db_id,
                   task_type |-> task_type,
                   filename |-> DictGet(img, "filename", <<>>),
                   path |-> DictGet(img, "path", ""),
                   lab_json |-> IF Truthy(lab_data)
                                THEN Some(json_dumps(lab_data)) ELSE None,
                   created_at |-> created_at]
    IN IF task_type = "cluster"
       THEN common @@ [cluster_id |-> DictGet(img, "cluster_id", None),
                       distance |-> None, status |-> None,
                       elapsed_time |-> None]
       ELSE common @@ [cluster_id |-> DictGet(img, "matched_cluster_id", None),
                       distance |-> DictGet(img, "distance", None),
                       status |-> DictGet(img, "status", None),
                       elapsed_time |-> DictGet(img, "elapsed_time", None)]

\* AUTOINCREMENT: one more than the largest id the table ever held
NextIdReusing(conn, table) ==
    1 + (IF conn[table] = <<>> THEN 0 ELSE conn[table][Len(conn[table])].id)

\* the id taken from the number of rows the table holds
NextIdRowCount(conn, table) == Len(conn[table]) + 1

NextId(conn, table) == conn.sqlite_sequence[table] + 1

\* INSERT INTO table: the row gets the next id
InsertRow(conn, table, row) ==
    LET id == NextId(conn, table)
    IN [conn EXCEPT ![table] = Append(@, row @@ [id |-> id]),
                    !.sqlite_sequence[table] = id]

\* cur.executemany(INSERT INTO task_images ..., batch): row by row, stopping
\* at the first row that cannot be bound
ExecuteMany(conn, batch) ==
    LET bad == {k \in DOMAIN batch : ~Bindable(batch[k].path)}
        n == IF bad = {} THEN Len(batch)
             ELSE (CHOOSE k \in bad : \A j \in bad : k <= j) - 1
        first == NextId(conn, "task_images")
        rows == [k \in 1..n |-> batch[k] @@ [id |-> first + k - 1]]
        after == IF n = 0 THEN conn
                 ELSE [conn EXCEPT !.task_images = @ \o rows,
                                   !.sqlite_sequence.task_images = first + n - 1]
    IN IF bad = {} THEN [conn |-> after]
       ELSE [conn |-> after, raised |-> "sqlite3.Error"]

\* only the first batch_size tuples reach the table
InsertBatchesOneStatement(conn, data_to_insert, i) ==
    ExecuteMany(conn, SubSeq(data_to_insert, 1, Min(batch_size, Len(data_to_insert))))

RECURSIVE InsertBatches(_, _, _)
\* for i in range(0, len(data_to_insert), batch_size): executemany(batch)
InsertBatches(conn, data_to_insert, i) ==
    IF i >= Len(data_to_insert) THEN [conn |-> conn]
    ELSE LET batch == SubSeq(data_to_insert, i + 1,
                             Min(i + batch_size, Len(data_to_insert)))
             done == ExecuteMany(conn, batch)
         IN IF "raised" \in DOMAIN done THEN done
            ELSE InsertBatches(done.conn, data_to_insert, i + batch_size)

\* insert_task_images_batch(conn, task_db_id, task_type, images) at time t:
\* the connection's uncommitted state, and the exception if one was raised
insert_task_images_batch(conn, task_db_id, task_type, images, t) ==
    IF \E k \in DOMAIN images : ~IsObject(images[k])
    THEN [conn |-> conn, raised |-> "AttributeError"]
    ELSE LET created_at == IsoSeconds(t)
             data_to_insert ==
                 [k \in DOMAIN images |->
                     ImageTuple(task_db_id, task_type, images[k], created_at)]
         IN InsertBatches(conn, data_to_insert, 0)

\* with get_connection() as conn: commit when the body returns, close
\* without commit (the transaction is rolled back) when it raises
get_connection(d, body) ==
    IF "raised" \in DOMAIN body
    THEN [db |-> d, raised |-> body.raised]
    ELSE [db |-> body.conn] @@ DictDel(body, "conn")

\* float(inter_cluster_stats.get(key, 0.0)) if inter_cluster_stats else None
StatColumn(inter_cluster_stats, key) ==
    IF Truthy(inter_cluster_stats)
    THEN Some(DictGet(inter_cluster_stats, key, 0)) ELSE None

\* payload['clusters'][cid] for every key: a list has no such items
ClustersWalkable(payload) ==
    "clusters" \in DOMAIN payload => IsObject(payload.clusters)

\* the text written again by json.dumps where it can be read
KeepPayloadRewritten(payload_json) ==
    [optimized_payload_json |->
         IF payload_json.valid THEN json_dumps(payload_json.value)
         ELSE payload_json,
     bulk |-> <<>>]

\* except Exception: optimized_payload_json = payload_json; images = []
KeepPayload(payload_json) ==
    [optimized_payload_json |-> payload_json, bulk |-> <<>>]

\* the try block of insert_cluster_result / insert_detection_result:
\* the text to store and the bulk list taken out of it
StripPayload(payload_json, key, walk_clusters) ==
    LET kept == KeepPayload(payload_json)
        parsed == json_loads(payload_json)
    IN IF "raised" \in DOMAIN parsed THEN kept
       ELSE IF ~IsObject(parsed.value) THEN kept
       ELSE IF walk_clusters /\ ~ClustersWalkable(parsed.value) THEN kept
       ELSE [optimized_payload_json |-> json_dumps(DictDel(parsed.value, key)),
             bulk |-> DictGet(parsed.value, key, <<>>)]

\* the body of "with get_connection() as conn" in both insert functions
InsertSummaryAndImages(d, t, table, task_type, row, bulk) ==
    LET conn == InsertRow(d, table, row)
        record_id == conn.sqlite_sequence[table]
    IN IF Truthy(bulk)
       THEN insert_task_images_batch(conn, record_id, task_type, bulk, t)
                @@ [result |-> record_id]
       ELSE [conn |-> conn, result |-> record_id]

\* returns [db, result] or, when an exception leaves the function, [db, raised]
insert_cluster_result(d, t, image_dir, n_clusters, total_images, inter_cluster_stats, payload_json, task_name, task_id) ==
    LET created_at == IsoSeconds(t)
        s == StripPayload(payload_json, "images", TRUE)
        row == [created_at |-> created_at,
                image_dir |-> image_dir,
                n_clusters |-> n_clusters,
                total_images |-> total_images,
                inter_cluster_mean |-> StatColumn(inter_cluster_stats, "mean"),
                inter_cluster_min |-> StatColumn(inter_cluster_stats, "min"),
                inter_cluster_max |-> StatColumn(inter_cluster_stats, "max"),
                inter_cluster_std |-> StatColumn(inter_cluster_stats, "std"),
                payload_json |-> s.optimized_payload_json,
                task_name |-> task_name,
                task_id |-> task_id]
    IN get_connection(d, InsertSummaryAndImages(d, t, "cluster_results",
                                                "cluster", row, s.bulk))

insert_detection_result(d, t, image_dir, total_images, classified, payload_json, task_name, task_id) ==
    LET created_at == IsoSeconds(t)
        s == StripPayload(payload_json, "results", FALSE)
        row == [created_at |-> created_at,
                image_dir |-> image_dir,
                total_images |-> total_images,
                classified |-> classified,
                payload_json |-> s.optimized_payload_json,
                task_name |-> task_name,
                task_id |-> task_id]
    IN get_connection(d, InsertSummaryAndImages(d, t, "detection_results",
                                                "detect", row, s.bulk))

\* DELETE FROM table WHERE id = ?
DeleteById(rows, result_id) ==
    LET keep(r) == r.id # result_id IN SelectSeq(rows, keep)

\* the cascade forgotten
DeleteImagesNoCascade(rows, result_id, task_type) == rows

\* the cascade without its task_type condition
DeleteImagesAnyType(rows, result_id, task_type) ==
    LET keep(r) == r.task_db_id # result_id IN SelectSeq(rows, keep)

\* DELETE FROM task_images WHERE task_db_id = ? AND task_type = '...'
DeleteImages(rows, result_id, task_type) ==
    LET keep(r) == ~(r.task_db_id = result_id /\ r.task_type = task_type)
    IN SelectSeq(rows, keep)

\* delete_cluster_result / delete_detection_result: [db, result]
DeleteResultRow(d, table, task_type, result_id) ==
    LET remaining == DeleteById(d[table], result_id)
        success == Len(remaining) < Len(d[table])
        conn == IF success
                THEN [d EXCEPT ![table] = remaining,
                               !.task_images =
                                   DeleteImages(@, result_id, task_type)]
                ELSE d
    IN get_connection(d, [conn |-> conn, result |-> success])

delete_cluster_result(d, result_id) ==
    DeleteResultRow(d, "cluster_results", "cluster", result_id)

delete_detection_result(d, result_id) ==
    DeleteResultRow(d, "detection_results", "detect", result_id)

\* the orders in which SELECT ... ORDER BY created_at DESC may return the
\* rows: SQL leaves the order of rows with equal created_at open
OrderByCreatedAtDesc(rows) ==
    LET n == Len(rows)
        perms == {p \in [1..n -> 1..n] :
                     /\ \A i, j \in 1..n : i # j => p[i] # p[j]
                     /\ \A i, j \in 1..n :
                            i < j => rows[p[i]].created_at >= rows[p[j]].created_at}
    IN {[i \in 1..n |-> rows[p[i]]] : p \in perms}

\* the possible return values of get_all_cluster_results
get_all_cluster_results(d) ==
    {[i \in DOMAIN rows |-> DictDel(rows[i], "payload_json")] :
        rows \in OrderByCreatedAtDesc(d.cluster_results)}

get_all_detection_results(d) ==
    {[i \in DOMAIN rows |-> DictDel(rows[i], "payload_json")] :
        rows \in OrderByCreatedAtDesc(d.detection_results)}

\* SELECT payload_json FROM table WHERE id = ?: the text or None
SelectPayload(rows, result_id) ==
    LET hit(r) == r.id = result_id
        found == SelectSeq(rows, hit)
    IN IF found = <<>> THEN None ELSE Some(found[1].payload_json)

get_cluster_result_payload(d, result_id) ==
    SelectPayload(d.cluster_results, result_id)

get_detection_result_payload(d, result_id) ==
    SelectPayload(d.detection_results, result_id)

\* SQLite's LIKE folds the case of ASCII letters
Lower(c) == CASE c = "A" -> "a" [] c = "B" -> "b" [] OTHER -> c

\* filename LIKE '%' || search || '%'
Like(search, filename) ==
    \E i \in 0..(Len(filename) - Len(search)) :
        \A j \in 1..Len(search) : Lower(filename[i + j]) = Lower(search[j])

\* the WHERE clause get_task_images builds
TaskImageMatches(r, task_db_id, task_type, search, cluster_id) ==
    /\ r.task_db_id = task_db_id
    /\ r.task_type = task_type
    /\ Truthy(search) => Like(search, r.filename)
    /\ cluster_id # None =>
           IF cluster_id = Some(-1) THEN r.cluster_id = None
           ELSE r.cluster_id = cluster_id

RECURSIVE OrderById(_)
\* ORDER BY id ASC
OrderById(rows) ==
    IF rows = <<>> THEN <<>>
    ELSE LET m == CHOOSE i \in DOMAIN rows :
                      \A j \in DOMAIN rows : rows[i].id <= rows[j].id
         IN <<rows[m]>> \o
            OrderById([k \in 1..(Len(rows) - 1) |->
                          IF k < m THEN rows[k] ELSE rows[k + 1]])

\* LIMIT n OFFSET k: a negative limit is no limit, a negative offset is 0
LimitOffset(rows, limit, offset) ==
    LET from == IF offset < 0 THEN 0 ELSE offset
        upto == IF limit < 0 THEN Len(rows) ELSE Min(from + limit, Len(rows))
    IN SubSeq(rows, from + 1, upto)

\* the item get_task_images builds from a row
TaskImageItem(row, task_type) ==
    LET item == [id |-> row.id, filename |-> row.filename, path |-> row.path,
                 lab |-> IF Truthy(row.lab_json)
                         THEN Some(json_loads(row.lab_json[1]).value) ELSE None]
    IN IF task_type = "cluster"
       THEN item @@ [cluster_id |-> row.cluster_id]
       ELSE item @@ [matched_cluster_id |-> row.cluster_id,
                     distance |-> row.distance,
                     status |-> row.status,
                     elapsed_time |-> row.elapsed_time]

OffsetOfPageOneBased(page, page_size) == page * page_size

\* offset = (page - 1) * page_size
OffsetOfPage(page, page_size) == (page - 1) * page_size

get_task_images(d, task_db_id, task_type, page, page_size, search, cluster_id) ==
    LET offset == OffsetOfPage(page, page_size)
        hit(r) == TaskImageMatches(r, task_db_id, task_type, search, cluster_id)
        matching == SelectSeq(d.task_images, hit)
        rows == LimitOffset(OrderById(matching), page_size, offset)
    IN [items |-> [k \in DOMAIN rows |-> TaskImageItem(rows[k], task_type)],
        total |-> Len(matching),
        page |-> page,
        pageSize |-> page_size]

---------------------------------------------------------------------------
(* main.py: the endpoints over the persistence layer.  Each returns the    *)
(* database it leaves and the response [op, req, status, ...].             *)

PreviewSize == 10

\* POST /api/save-cluster-result
save_cluster_result(d, t, request) ==
    LET payload == request.result
        inter_cluster_stats == DictGet(payload, "inter_cluster_stats", <<>>)
        total_images == DictGet(payload, "total_images", 0)
        r == insert_cluster_result(d, t, request.image_dir, request.n_clusters,
                                   total_images, inter_cluster_stats,
                                   json_dumps(payload), request.task_name,
                                   request.task_id)
        base == [op |-> "save-cluster-result", req |-> request]
    IN IF "raised" \in DOMAIN r
       THEN [db |-> r.db, http |-> base @@ [status |-> 500, id |-> None]]
       ELSE [db |-> r.db, http |-> base @@ [status |-> 200, id |-> Some(r.result)]]

\* str(int)
Str(k) == CASE k = -1 -> "-1" [] k = 0 -> "0" [] k = 1 -> "1" [] k = 2 -> "2"

\* str(res.get('matched_cluster_id', -1))
\*     if res.get('matched_cluster_id') is not None else '-1'
StatisticsKey(res) ==
    LET m == DictGet(res, "matched_cluster_id", None)
    IN IF m # None THEN Str(m[1]) ELSE "-1"

\* the statistics dict save_detection_result computes
DetectionStatistics(request) ==
    IF Truthy(request.cluster_result) /\ "clusters" \in DOMAIN request.cluster_result
    THEN LET results == request.results
             keys == (DOMAIN request.cluster_result.clusters) \cup {"-1"}
                         \cup {StatisticsKey(results[i]) : i \in DOMAIN results}
         IN [k \in keys |->
                Cardinality({i \in DOMAIN results : StatisticsKey(results[i]) = k})]
    ELSE <<>>

RecentResultsFirst(results) == SubSeq(results, 1, Min(PreviewSize, Len(results)))

\* request.results[-10:] if request.results else []
RecentResults(results) ==
    SubSeq(results, (IF Len(results) > PreviewSize
                     THEN Len(results) - PreviewSize ELSE 0) + 1, Len(results))

\* the payload with the full result list left in it
SavedPayloadWithResults(request) ==
    [image_dir |-> request.image_dir,
     total |-> request.total,
     classified |-> request.classified,
     results |-> request.results,
     recent_results |-> RecentResults(request.results),
     statistics |-> DetectionStatistics(request),
     max_scale |-> request.max_scale,
     cluster_result |-> request.cluster_result,
     cluster_result_id |-> request.cluster_result_id]

\* the payload object save_detection_result serialises: the full result
\* list is not part of it, only the preview
SavedPayload(request) ==
    [image_dir |-> request.image_dir,
     total |-> request.total,
     classified |-> request.classified,
     recent_results |-> RecentResults(request.results),
     statistics |-> DetectionStatistics(request),
     max_scale |-> request.max_scale,
     cluster_result |-> request.cluster_result,
     cluster_result_id |-> request.cluster_result_id]

\* POST /api/save-detection-result
save_detection_result(d, t, request) ==
    LET payload == SavedPayload(request)
        r == insert_detection_result(d, t, request.image_dir, request.total,
                                     request.classified, json_dumps(payload),
                                     request.task_name, request.task_id)
        base == [op |-> "save-detection-result", req |-> request]
    IN IF "raised" \in DOMAIN r
       THEN [db |-> r.db, http |-> base @@ [status |-> 500, id |-> None]]
       ELSE IF ~Truthy(request.results)
       THEN [db |-> r.db, http |-> base @@ [status |-> 200, id |-> Some(r.result)]]
       ELSE LET w == get_connection(r.db,
                         insert_task_images_batch(r.db, r.result, "detect",
                                                  request.results, t))
            IN IF "raised" \in DOMAIN w
               THEN [db |-> w.db, http |-> base @@ [status |-> 500, id |-> None]]
               ELSE [db |-> w.db,
                     http |-> base @@ [status |-> 200, id |-> Some(r.result)]]

\* GET /api/saved-cluster-results: the possible responses
get_saved_cluster_results(d) ==
    {[op |-> "saved-cluster-results", status |-> 200, data |-> results] :
        results \in get_all_cluster_results(d)}

\* GET /api/saved-detection-results: the possible responses
get_saved_detection_results(d) ==
    {[op |-> "saved-detection-results", status |-> 200, data |-> results] :
        results \in get_all_detection_results(d)}

\* GET /api/result-detail/{type}/{id}
get_result_detail(d, type, id) ==
    LET base == [op |-> "result-detail", type |-> type, id |-> id]
    IN IF type \notin {"cluster", "detect"} THEN base @@ [status |-> 400]
       ELSE LET payload_json == IF type = "cluster"
                                THEN get_cluster_result_payload(d, id)
                                ELSE get_detection_result_payload(d, id)
            IN IF payload_json = None THEN base @@ [status |-> 404]
               ELSE LET parsed == json_loads(payload_json[1])
                    IN IF "raised" \in DOMAIN parsed
                       THEN base @@ [status |-> 500]
                       ELSE base @@ [status |-> 200, data |-> parsed.value]

\* GET /api/task-images/{type}/{id}
get_task_images_api(d, type, id, page, pageSize, search, clusterId) ==
    LET base == [op |-> "task-images", type |-> type, id |-> id,
                 search |-> search, clusterId |-> clusterId]
    IN IF type \notin {"cluster", "detect"} THEN base @@ [status |-> 400]
       ELSE base @@ [status |-> 200,
                     data |-> get_task_images(d, id, type, page, pageSize,
                                              search, clusterId)]

\* the type parameter ignored: every delete goes to cluster_results
delete_resultTypeIgnored(d, result_id, type) ==
    LET r == delete_cluster_result(d, result_id)
        base == [op |-> "delete-result", result_id |-> result_id, type |-> type]
    IN [db |-> r.db,
        http |-> base @@ [status |-> IF r.result THEN 200 ELSE 404]]

\* DELETE /api/delete-result/{result_id}?type=
delete_result(d, result_id, type) ==
    LET r == IF type = "detect" THEN delete_detection_result(d, result_id)
             ELSE delete_cluster_result(d, result_id)
        base == [op |-> "delete-result", result_id |-> result_id, type |-> type]
    IN [db |-> r.db,
        http |-> base @@ [status |-> IF r.result THEN 200 ELSE 404]]

---------------------------------------------------------------------------
(* Requests to the persistence endpoints *)

MaxSaves == 2
MaxNow == 2
MaxPage == 3

FileNames == <<<<"a">>, <<"A", "b">>, <<"b">>>>

\* the i-th entry of a clustering response's images list
ClusterImage(i) ==
    [path |-> "/dir/img", filename |-> FileNames[(i % 3) + 1],
     lab |-> [L |-> i, a |-> 0, b |-> 0], cluster_id |-> Some(i % 2)]

\* the i-th result of a detection: every third one is unclassified
DetectResult(i) ==
    [path |-> "/dir/img", filename |-> FileNames[(i % 3) + 1],
     lab |-> [L |-> i, a |-> 0, b |-> 0],
     matched_cluster_id |-> IF i % 3 = 0 THEN None ELSE Some(i % 2),
     distance |-> IF i % 3 = 0 THEN None ELSE Some(i),
     status |-> IF i % 3 = 0 THEN Some("unclassified") ELSE Some("classified"),
     elapsed_time |-> Some(1)]

ClusterImages(n) == [i \in 1..n |-> ClusterImage(i)]

DetectResults(n) == [i \in 1..n |-> DetectResult(i)]

\* a nested object where a text is expected
Unbindable(img) == [img EXCEPT !.path = "<dict>"]

\* the clusters object of a clustering response, keyed by str(cluster_id)
ClustersByKey ==
    [k \in {"0", "1"} |-> [cluster_id |-> k, count |-> 1, de2000_intra_max |-> 50]]

ClusterPayload(images) ==
    [success |-> TRUE, total_images |-> Len(images), n_clusters |-> 2,
     inter_cluster_stats |-> [mean |-> 5, min |-> 5, max |-> 5, std |-> 0],
     images |-> images, clusters |-> ClustersByKey]

SaveClusterRequest(result) ==
    [image_dir |-> "dir", n_clusters |-> 2, result |-> result,
     task_name |-> "", task_id |-> ""]

ClassifiedIn(results) ==
    Cardinality({i \in DOMAIN results :
                    DictGet(results[i], "matched_cluster_id", None) # None})

SaveDetectionRequest(results, total, classified, cluster_result) ==
    [image_dir |-> "dir", total |-> total, classified |-> classified,
     results |-> results, max_scale |-> DefaultMaxScale,
     task_name |-> "", task_id |-> "",
     cluster_result |-> cluster_result, cluster_result_id |-> None]

SaveClusterRequests ==
    {SaveClusterRequest(ClusterPayload(images)) :
        images \in {ClusterImages(2),
                    <<[json |-> "number"]>>,
                    ClusterImages(1) \o <<Unbindable(ClusterImage(2))>>}}
    \cup {SaveClusterRequest(DictDel(ClusterPayload(<<>>), "images"))}

SaveDetectionRequests ==
    {SaveDetectionRequest(results, Len(results), ClassifiedIn(results), cr) :
        results \in {<<>>, DetectResults(PreviewSize + 1)},
        cr \in {None, ClusterPayload(<<>>)}}
    \cup {SaveDetectionRequest(
              DetectResults(2) \o <<Unbindable(DetectResult(3))>>, 3, 2,
              ClusterPayload(<<>>)),
          SaveDetectionRequest(DetectResults(1), 0, 1, ClusterPayload(<<>>))}

TaskTypes == {"cluster", "detect"}

ResultIds == 1..(MaxSaves + 1)

\* AUTOINCREMENT ids grow without bound: at most MaxSaves summary rows
\* are ever committed
SavesLeft(d) ==
    d.sqlite_sequence.cluster_results + d.sqlite_sequence.detection_results
        < MaxSaves

---------------------------------------------------------------------------
(* The service over its database: one action per request.  The handlers    *)
(* are coroutines without an await, so each runs to its end before the     *)
(* event loop takes the next request.                                      *)

\* the wall clock advances; only a save reads it (datetime.now()), so its
\* later movement is not followed once no save is left
Tick ==
    /\ now < MaxNow
    /\ SavesLeft(db)
    /\ now' = now + 1
    /\ UNCHANGED <<fs, scriptVars, wsVars, http, db>>

HttpSaveCluster ==
    /\ SavesLeft(db)
    /\ \E request \in SaveClusterRequests :
          LET out == save_cluster_result(db, now, request)
          IN db' = out.db /\ http' = out.http
    /\ UNCHANGED <<fs, scriptVars, wsVars, now>>

HttpSaveDetection ==
    /\ SavesLeft(db)
    /\ \E request \in SaveDetectionRequests :
          LET out == save_detection_result(db, now, request)
          IN db' = out.db /\ http' = out.http
    /\ UNCHANGED <<fs, scriptVars, wsVars, now>>

HttpDeleteResult ==
    /\ \E result_id \in ResultIds, type \in TaskTypes :
          LET out == delete_result(db, result_id, type)
          IN db' = out.db /\ http' = out.http
    /\ UNCHANGED <<fs, scriptVars, wsVars, now>>

\* The read requests leave the database as it is, so a read made after
\* another read reaches no state that a read made directly after the last
\* write does not reach: reads are followed from the responses to writes.
ReadOps == {"result-detail", "saved-cluster-results", "saved-detection-results"}

HttpResultDetail ==
    /\ http.op \notin ReadOps
    /\ \E type \in TaskTypes \cup {"other"}, id \in ResultIds :
          http' = get_result_detail(db, type, id)
    /\ UNCHANGED <<fs, scriptVars, wsVars, db, now>>

HttpSavedClusterResults ==
    /\ http.op \notin ReadOps
    /\ http' \in get_saved_cluster_results(db)
    /\ UNCHANGED <<fs, scriptVars, wsVars, db, now>>

HttpSavedDetectionResults ==
    /\ http.op \notin ReadOps
    /\ http' \in get_saved_detection_results(db)
    /\ UNCHANGED <<fs, scriptVars, wsVars, db, now>>

InitDb ==
    /\ fs = [n |-> 0, ci |-> FALSE, lab |-> <<>>]
    /\ http = [op |-> "none"]
    /\ db = EmptyDb
    /\ now = 0
    /\ WsIdle
    /\ ScriptsIdle

NextDb ==
    \/ Tick
    \/ HttpSaveCluster
    \/ HttpSaveDetection
    \/ HttpDeleteResult
    \/ HttpResultDetail
    \/ HttpSavedClusterResults
    \/ HttpSavedDetectionResults

SpecDb == InitDb /\ [][NextDb]_vars

---------------------------------------------------------------------------
(* Browsing the stored image rows page by page *)

PageSizes == {1, 2, 20}

Searches == {<<>>, <<"a">>}

ClusterIdFilters == {None, Some(-1), Some(0)}

BrowseClusterRequests ==
    {SaveClusterRequest(ClusterPayload(ClusterImages(n))) : n \in {3, 45}}

BrowseDetectionRequests ==
    {SaveDetectionRequest(DetectResults(5), 5, ClassifiedIn(DetectResults(5)),
                          ClusterPayload(<<>>))}

BrowseSaveCluster ==
    /\ SavesLeft(db)
    /\ \E request \in BrowseClusterRequests :
          LET out == save_cluster_result(db, now, request)
          IN db' = out.db /\ http' = out.http
    /\ UNCHANGED <<fs, scriptVars, wsVars, now>>

BrowseSaveDetection ==
    /\ SavesLeft(db)
    /\ \E request \in BrowseDetectionRequests :
          LET out == save_detection_result(db, now, request)
          IN db' = out.db /\ http' = out.http
    /\ UNCHANGED <<fs, scriptVars, wsVars, now>>

\* A browse request leaves the database as it is: the behaviours that make
\* one such request reach every pair of a database and a response.
HttpTaskImages ==
    /\ http.op # "task-images"
    /\ \E type \in TaskTypes \cup {"other"}, id \in ResultIds,
          page \in 1..MaxPage, pageSize \in PageSizes,
          search \in Searches, clusterId \in ClusterIdFilters :
          http' = get_task_images_api(db, type, id, page, pageSize,
                                      search, clusterId)
    /\ UNCHANGED <<fs, scriptVars, wsVars, db, now>>

NextBrowse == BrowseSaveCluster \/ BrowseSaveDetection \/ HttpTaskImages

SpecBrowse == InitDb /\ [][NextBrowse]_vars

---------------------------------------------------------------------------
(* The persistence layer called directly with a payload text *)

JsonText(value, form) == [valid |-> TRUE, value |-> value, form |-> form]

\* a text json.loads cannot read
NotJson == [valid |-> FALSE, value |-> <<>>, form |-> "raw"]

\* a JSON array where an object is expected
JsonArray == [json |-> "array"]

\* the lengths of the bulk lists: around one and two batches
LayerCounts == {0, 1, batch_size, batch_size + 1, 2 * batch_size + 1}

DetectionPayload(results) ==
    [image_dir |-> "dir", total |-> Len(results),
     classified |-> ClassifiedIn(results), results |-> results]

LayerClusterTexts ==
    {JsonText(ClusterPayload(ClusterImages(n)), "dumps") : n \in LayerCounts}
    \cup {JsonText(ClusterPayload(ClusterImages(1)), "spaced"),
          JsonText(DictDel(ClusterPayload(<<>>), "images"), "dumps"),
          JsonText([ClusterPayload(ClusterImages(2)) EXCEPT !.clusters = JsonArray],
                   "dumps"),
          JsonText(JsonArray, "spaced"),
          NotJson}

LayerDetectionTexts ==
    {JsonText(DetectionPayload(DetectResults(n)), "dumps") :
        n \in {0, 2, batch_size + 1}}
    \cup {JsonText(DetectionPayload(DetectResults(2)), "spaced"),
          JsonText(JsonArray, "spaced"),
          NotJson}

\* the response of a direct call: the returned id, or the exception
LayerOutcome(op, payload_json, r) ==
    [op |-> op, payload_json |-> payload_json,
     result |-> IF "raised" \in DOMAIN r THEN None ELSE Some(r.result),
     raised |-> "raised" \in DOMAIN r]

LayerInsertCluster ==
    /\ SavesLeft(db)
    /\ \E payload_json \in LayerClusterTexts :
          LET r == insert_cluster_result(db, now, "dir", 2, 0,
                                         [mean |-> 5, min |-> 5, max |-> 5, std |-> 0],
                                         payload_json, "", "")
          IN /\ db' = r.db
             /\ http' = LayerOutcome("insert_cluster_result", payload_json, r)
    /\ UNCHANGED <<fs, scriptVars, wsVars, now>>

LayerInsertDetection ==
    /\ SavesLeft(db)
    /\ \E payload_json \in LayerDetectionTexts :
          LET r == insert_detection_result(db, now, "dir", 0, 0,
                                           payload_json, "", "")
          IN /\ db' = r.db
             /\ http' = LayerOutcome("insert_detection_result", payload_json, r)
    /\ UNCHANGED <<fs, scriptVars, wsVars, now>>

NextLayer == LayerInsertCluster \/ LayerInsertDetection

SpecLayer == InitDb /\ [][NextLayer]_vars

---------------------------------------------------------------------------
(* Claims: saved results *)

TableOf(type) == IF type = "detect" THEN "detection_results" ELSE "cluster_results"

\* a summary row with this id is stored in the table of this type
Stored(d, type, id) == \E i \in DOMAIN d[TableOf(type)] : d[TableOf(type)][i].id = id

\* the task_images rows tagged (id, type)
ImagesOf(d, type, id) ==
    {i \in DOMAIN d.task_images :
        d.task_images[i].task_db_id = id /\ d.task_images[i].task_type = type}

\* the id was returned by a save and its row has been deleted since
Deleted(d, type, id) ==
    id <= d.sqlite_sequence[TableOf(type)] /\ ~Stored(d, type, id)

\* this step is a DELETE /api/delete-result request
DeleteStep == http'.op = "delete-result" /\ (http' # http \/ db' # db)

\* C11: saving a result and then deleting it by the returned id removes its
\* summary row and every task_images row tagged (id, type), so that the
\* count of its images is 0, and from then on the id stays absent and every
\* payload fetch for it answers 404; for type 'cluster' and type 'detect'.
C11_SaveDeleteThenNotFound ==
    [][\A type \in TaskTypes, id \in ResultIds :
          /\ (DeleteStep /\ http'.type = type /\ http'.result_id = id
                  /\ Stored(db, type, id))
             => /\ http'.status = 200
                /\ ~Stored(db', type, id)
                /\ ImagesOf(db', type, id) = {}
                /\ get_task_images(db', id, type, 1, 20, <<>>, None).total = 0
                /\ get_result_detail(db', type, id).status = 404
          /\ Deleted(db, type, id)
             => /\ Deleted(db', type, id)
                /\ (http'.op = "result-detail" /\ http'.type = type
                        /\ http'.id = id)
                   => http'.status = 404]_vars

\* a saved clustering result with image rows was deleted and a later fetch
\* of its payload answered 404, while another saved result is still stored
C11_Witness ==
    /\ http.op = "result-detail"
    /\ http.type = "cluster"
    /\ http.status = 404
    /\ Deleted(db, "cluster", http.id)
    /\ db.sqlite_sequence.task_images > Len(db.task_images)
    /\ db.task_images # <<>>

\* C12: in every committed state, every task_images row names a task type
\* and the id of exactly one stored summary row of that type.
C12_NoOrphanImageRows ==
    \A i \in DOMAIN db.task_images :
        LET r == db.task_images[i]
        IN /\ r.task_type \in TaskTypes
           /\ Cardinality({k \in DOMAIN db[TableOf(r.task_type)] :
                               db[TableOf(r.task_type)][k].id = r.task_db_id}) = 1

\* a save-detection-result failed after its summary row was committed,
\* while the image rows of an earlier save are stored
C12_Witness ==
    /\ http.op = "save-detection-result"
    /\ http.status = 500
    /\ db.detection_results # <<>>
    /\ db.task_images # <<>>

\* the ids of the stored rows a browse request selects
MatchingIds(d, type, id, search, clusterId) ==
    {d.task_images[i].id : i \in
        {k \in DOMAIN d.task_images :
            TaskImageMatches(d.task_images[k], id, type, search, clusterId)}}

\* the position of id x in the ascending order of the ids M
Rank(M, x) == Cardinality({y \in M : y < x})

PageIds(items) == [k \in DOMAIN items |-> items[k].id]

RECURSIVE PagesFrom(_, _, _, _, _, _, _, _)
\* the ids of pages p..last, one page after the other
PagesFrom(d, type, id, S, search, clusterId, p, last) ==
    IF p > last THEN <<>>
    ELSE PageIds(get_task_images(d, id, type, p, S, search, clusterId).items)
         \o PagesFrom(d, type, id, S, search, clusterId, p + 1, last)

\* C13: a page p >= 1 of size S >= 1 over the T rows that match the filters
\* holds the rows at the positions (p-1)*S .. min(p*S, T)-1 of the order by
\* ascending id and reports total = T; pages 1..ceil(T/S) one after the
\* other are all the matching rows, each once.
C13_PagesPartitionRows ==
    (http.op = "task-images" /\ http.status = 200) =>
        LET S == http.data.pageSize
            p == http.data.page
            items == http.data.items
            M == MatchingIds(db, http.type, http.id, http.search, http.clusterId)
            T == Cardinality(M)
            all == PagesFrom(db, http.type, http.id, S, http.search,
                             http.clusterId, 1, (T + S - 1) \div S)
        IN /\ http.data.total = T
           /\ Len(items) = (IF p * S < T THEN p * S ELSE T)
                             - (IF (p - 1) * S < T THEN (p - 1) * S ELSE T)
           /\ \A k \in DOMAIN items :
                 /\ items[k].id \in M
                 /\ Rank(M, items[k].id) = (p - 1) * S + k - 1
           /\ Len(all) = T
           /\ {all[k] : k \in DOMAIN all} = M
           /\ \A j, k \in DOMAIN all : j < k => all[j] < all[k]

\* 45 stored rows browsed 20 to a page: page 3 holds the last 5, while the
\* rows of another saved result are stored beside them
C13_Witness ==
    /\ http.op = "task-images"
    /\ http.status = 200
    /\ http.data.total = 45
    /\ http.data.pageSize = 20
    /\ http.data.page = 3
    /\ Len(http.data.items) = 5
    /\ Len(db.task_images) > 45

---------------------------------------------------------------------------
(* Claims: the write path of the persistence layer *)

LayerOps == {"insert_cluster_result", "insert_detection_result"}

\* this step is a direct call of insert_cluster_result / insert_detection_result
LayerStep == http'.op \in LayerOps /\ (http' # http \/ db' # db)

LayerKey(op) == IF op = "insert_cluster_result" THEN "images" ELSE "results"

LayerType(op) == IF op = "insert_cluster_result" THEN "cluster" ELSE "detect"

\* the payload text is a JSON object the function can strip
Strippable(op, text) ==
    /\ text.valid
    /\ IsObject(text.value)
    /\ (op = "insert_cluster_result" /\ "clusters" \in DOMAIN text.value)
           => IsObject(text.value.clusters)

\* every entry of the bulk list is an object whose fields SQLite can store
StorableEntries(bulk) ==
    \A k \in DOMAIN bulk : IsObject(bulk[k]) /\ bulk[k].path # "<dict>"

\* the summary row the call stored under the id it returned
NewSummaryRows(d, op, id) ==
    {i \in DOMAIN d[TableOf(LayerType(op))] : d[TableOf(LayerType(op))][i].id = id}

StripFails(op, text) == ~Strippable(op, text)

\* C15: when parsing or stripping the payload fails inside
\* insert_cluster_result / insert_detection_result, no error reaches the
\* caller, a new id is returned, and the summary row stored under it holds
\* the original payload text unmodified; no image row is written.
C15_FallbackKeepsOriginalText ==
    [][(LayerStep /\ StripFails(http'.op, http'.payload_json))
       => /\ ~http'.raised
          /\ http'.result # None
          /\ LET id == http'.result[1]
                 table == TableOf(LayerType(http'.op))
             IN /\ id > db.sqlite_sequence[table]
                /\ Cardinality(NewSummaryRows(db', http'.op, id)) = 1
                /\ \A i \in NewSummaryRows(db', http'.op, id) :
                      db'[table][i].payload_json = http'.payload_json
                /\ db'.task_images = db.task_images]_vars

\* a clustering payload whose clusters member is an array could be parsed
\* but not stripped: it is stored as it came, its images list included
C15_Witness ==
    /\ http.op = "insert_cluster_result"
    /\ http.payload_json.valid
    /\ IsObject(http.payload_json.value)
    /\ "clusters" \in DOMAIN http.payload_json.value
    /\ ~IsObject(http.payload_json.value.clusters)
    /\ http.result # None
    /\ \E i \in DOMAIN db.cluster_results :
          /\ db.cluster_results[i].id = http.result[1]
          /\ db.cluster_results[i].payload_json = http.payload_json
          /\ "images" \in DOMAIN db.cluster_results[i].payload_json.value
    /\ ImagesOf(db, "cluster", http.result[1]) = {}

---------------------------------------------------------------------------
(* Claims: listing, deleting and saving detection results *)

ListOps == {"saved-cluster-results", "saved-detection-results"}

ListedTable(op) ==
    IF op = "saved-cluster-results" THEN "cluster_results" ELSE "detection_results"

\* C16: the list endpoints return every stored summary row of their type,
\* without payload_json, newest first: of two records the one saved later
\* (the one with the larger id) comes first, also when both were saved
\* within the same second.
C16_ListsNewestFirst ==
    (http.op \in ListOps) =>
        LET rows == db[ListedTable(http.op)]
            data == http.data
        IN /\ Len(data) = Len(rows)
           /\ {data[i].id : i \in DOMAIN data} = {rows[i].id : i \in DOMAIN rows}
           /\ \A i \in DOMAIN data : "payload_json" \notin DOMAIN data[i]
           /\ \A i, j \in DOMAIN data : i < j => data[i].id > data[j].id

\* C17: a delete request for an id that is not stored in the table of the
\* requested type answers 404 and leaves every row of cluster_results,
\* detection_results and task_images as it was.
C17_DeleteUnknownIsNoOp ==
    [][(DeleteStep /\ ~Stored(db, http'.type, http'.result_id))
       => /\ http'.status = 404
          /\ ~(IF http'.type = "detect"
                THEN delete_detection_result(db, http'.result_id)
                ELSE delete_cluster_result(db, http'.result_id)).result
          /\ db' = db]_vars

\* a delete of type 'detect' for an id stored only as a clustering result
\* answered 404, and the clustering result and its image rows are stored
C17_Witness ==
    /\ http.op = "delete-result"
    /\ http.status = 404
    /\ http.type = "detect"
    /\ Stored(db, "cluster", http.result_id)
    /\ ~Stored(db, "detect", http.result_id)
    /\ ImagesOf(db, "cluster", http.result_id) # {}

\* C18: every Detection Result the service produces or persists has
\* classified <= total: the response of POST /api/detect-images, the
\* completed message of WS /ws/detect-images, and every detection_results
\* row stored through POST /api/save-detection-result.
C18_ClassifiedAtMostTotal ==
    /\ (http.op = "detect" /\ http.status = 200) => http.classified <= http.total
    /\ \A i \in DOMAIN sent :
          sent[i].type = "completed" => sent[i].classified <= sent[i].total
    /\ \A i \in DOMAIN db.detection_results :
          db.detection_results[i].classified <= db.detection_results[i].total_images

RECURSIVE SumOfCounts(_, _)
\* the sum of the counts of the buckets keys
SumOfCounts(statistics, keys) ==
    IF keys = {} THEN 0
    ELSE LET k == CHOOSE x \in keys : TRUE
         IN statistics[k] + SumOfCounts(statistics, keys \ {k})

\* the detection_results row the last save-detection-result request stored
LastDetectionRow ==
    CHOOSE r \in Range(db.detection_results) :
        r.id = db.sqlite_sequence.detection_results

\* C19: for every save-detection-result request the stored payload holds a
\* statistics histogram with the bucket '-1' and a bucket per cluster, whose
\* counts add up to the number of submitted results, each result counted
\* under its matched_cluster_id or under '-1'; recent_results is the last
\* min(10, n) submitted results in their order; the results list itself is
\* not in the payload.
C19_HistogramAndPreview ==
    (http.op = "save-detection-result") =>
        LET payload == LastDetectionRow.payload_json.value
            results == http.req.results
            n == Len(results)
            statistics == payload.statistics
            clusters == DictGet(IF Truthy(http.req.cluster_result)
                                THEN http.req.cluster_result ELSE <<>>,
                                "clusters", <<>>)
        IN /\ "-1" \in DOMAIN statistics
           /\ DOMAIN clusters \subseteq DOMAIN statistics
           /\ SumOfCounts(statistics, DOMAIN statistics) = n
           /\ \A k \in DOMAIN statistics :
                 statistics[k] =
                     Cardinality({i \in DOMAIN results :
                         IF results[i].matched_cluster_id = None THEN k = "-1"
                         ELSE k = Str(results[i].matched_cluster_id[1])})
           /\ payload.recent_results =
                  SubSeq(results, n - Min(10, n) + 1, n)
           /\ "results" \notin DOMAIN payload

---------------------------------------------------------------------------
(* POST /api/calculate-lab and POST /api/calculate-lab-batch               *)
(*                                                                         *)
(* An upload is [filename, content]; the content is of kind "empty" (no    *)
(* bytes: cv2.imdecode raises), "garbage" (cv2.imdecode returns None) or   *)
(* "image", with the LAB vectors median and mean of its centre region.     *)
(* center_ratio is in tenths.                                              *)

MaxUploads == 3

Decodable(image) == image.content.kind = "image"

\* calculate_lab: the LABResponse, or the HTTPException it raises
calculate_lab(image, center_ratio, use_median) ==
    IF ~(0 < center_ratio /\ center_ratio <= 10)
    THEN [raised |-> 400, detail |-> "center_ratio"]
    ELSE IF image.content.kind = "empty"
    THEN [raised |-> 500, detail |-> "cv2.error"]
    ELSE IF image.content.kind = "garbage"
    THEN [raised |-> 400, detail |-> "decode"]
    ELSE LET lab_vector == IF use_median THEN image.content.median
                           ELSE image.content.mean
         IN [L |-> lab_vector[1], a |-> lab_vector[2], b |-> lab_vector[3],
             lab_vector |-> lab_vector, center_ratio |-> center_ratio,
             success |-> TRUE]

\* str(e) of an HTTPException: "status: detail" where the installed
\* starlette defines __str__, the empty text where it does not
StrOfException(e, has_str) ==
    IF has_str THEN <<e.raised, e.detail>> ELSE <<>>

\* f"image_{idx}"
ImageName(i) == <<"image", i>>

\* the entry the loop appends for the i-th upload, counted from 0
BatchEntry(i, image, center_ratio, use_median, has_str) ==
    LET response == calculate_lab(image, center_ratio, use_median)
    IN IF "raised" \in DOMAIN response
       THEN [index |-> i,
             filename |-> IF Truthy(image.filename) THEN image.filename
                          ELSE ImageName(i),
             error |-> StrOfException(response, has_str),
             success |-> FALSE]
       ELSE [index |-> i, filename |-> image.filename,
             lab |-> [L |-> response.L, a |-> response.a, b |-> response.b],
             success |-> TRUE]

SuccessCountAll(results) == Len(results)

\* sum(1 for r in results if r.get("success", False))
SuccessCount(results) ==
    Cardinality({k \in DOMAIN results : DictGet(results[k], "success", FALSE)})

calculate_lab_batch(images, center_ratio, use_median, has_str) ==
    LET results == [k \in DOMAIN images |->
                       BatchEntry(k - 1, images[k], center_ratio, use_median,
                                  has_str)]
    IN [op |-> "calculate-lab-batch",
        req |-> [images |-> images, center_ratio |-> center_ratio,
                 use_median |-> use_median],
        total |-> Len(images),
        success_count |-> SuccessCount(results),
        results |-> results]

Uploads ==
    {[filename |-> <<"a">>, content |-> [kind |-> "image", median |-> Lab(54), mean |-> Lab(56)]],
     [filename |-> <<"b">>, content |-> [kind |-> "garbage"]],
     [filename |-> <<>>, content |-> [kind |-> "empty"]]}

UploadLists == UNION {[1..n -> Uploads] : n \in 1..MaxUploads}

CenterRatios == {0, 4, 10, 11}

\* One request per behaviour: the handlers keep no state between requests.
HttpCalculateLab ==
    /\ http.op = "none"
    /\ \E image \in Uploads, center_ratio \in CenterRatios, use_median \in BOOLEAN :
          http' = [op |-> "calculate-lab",
                   req |-> [image |-> image, center_ratio |-> center_ratio],
                   response |-> calculate_lab(image, center_ratio, use_median)]
    /\ UNCHANGED <<fs, scriptVars, wsVars, db, now>>

HttpCalculateLabBatch ==
    /\ http.op = "none"
    /\ \E images \in UploadLists, center_ratio \in CenterRatios,
          use_median \in BOOLEAN, has_str \in BOOLEAN :
          http' = calculate_lab_batch(images, center_ratio, use_median, has_str)
    /\ UNCHANGED <<fs, scriptVars, wsVars, db, now>>

NextLab == HttpCalculateLab \/ HttpCalculateLabBatch

SpecLab == InitDb /\ [][NextLab]_vars

\* the single-image endpoint would not answer this upload with a LAB value
ItemFails(image, center_ratio) ==
    \/ center_ratio <= 0
    \/ center_ratio > 10
    \/ ~Decodable(image)

\* C20: for n uploads the batch response has total = n and n entries in
\* upload order with index 0..n-1; an upload that fails (undecodable, or
\* center_ratio outside (0,1]) yields an entry with success = false and an
\* error member, every other upload yields its LAB value, and success_count
\* is the number of entries with success = true.
C20_BatchIsolatesFailures ==
    (http.op = "calculate-lab-batch") =>
        LET images == http.req.images
            results == http.results
        IN /\ http.total = Len(images)
           /\ Len(results) = Len(images)
           /\ \A k \in DOMAIN results :
                 /\ results[k].index = k - 1
                 /\ IF ItemFails(images[k], http.req.center_ratio)
                    THEN /\ results[k].success = FALSE
                         /\ "error" \in DOMAIN results[k]
                         /\ "lab" \notin DOMAIN results[k]
                    ELSE /\ results[k].success = TRUE
                         /\ results[k].filename = images[k].filename
                         /\ results[k].lab.L =
                                (IF http.req.use_median
                                 THEN images[k].content.median
                                 ELSE images[k].content.mean)[1]
           /\ http.success_count =
                  Cardinality({k \in DOMAIN results : results[k].success})

\* three uploads of which the second cannot be decoded: its entry reports
\* the failure and the first and the third are answered
C20_Witness ==
    /\ http.op = "calculate-lab-batch"
    /\ http.total = 3
    /\ http.results[1].success
    /\ ~http.results[2].success
    /\ http.results[3].success
    /\ http.results[3].index = 2
    /\ http.success_count = 2

---------------------------------------------------------------------------
(* Claims: the two insertion paths, the frame of a delete, the ids *)

\* this step is a POST /api/save-detection-result request
SaveDetectionStep == http'.op = "save-detection-result" /\ db' # db

\* the task_images rows tagged (id, type), in rowid order
ImageRowsOf(d, type, id) ==
    LET tagged(r) == r.task_db_id = id /\ r.task_type = type
    IN SelectSeq(d.task_images, tagged)

\* C27: a save-detection-result request answered 200 with n submitted
\* results leaves exactly n task_images rows tagged (new id, 'detect'), the
\* k-th of them holding the k-th result, none of them stored before the
\* request; with n = 0 none is stored.
C27_EachResultStoredOnce ==
    [][(SaveDetectionStep /\ http'.status = 200)
       => LET id == http'.id[1]
              results == http'.req.results
              rows == ImageRowsOf(db', "detect", id)
          IN /\ ImagesOf(db, "detect", id) = {}
             /\ Len(rows) = Len(results)
             /\ \A k \in DOMAIN results :
                   /\ rows[k].filename = results[k].filename
                   /\ rows[k].lab_json = Some(json_dumps(results[k].lab))
                   /\ rows[k].cluster_id = results[k].matched_cluster_id
             /\ Len(db'.task_images) = Len(db.task_images) + Len(results)]_vars

\* a save of more results than the preview holds was answered 200 and its
\* rows are stored, after an earlier save
C27_Witness ==
    /\ http.op = "save-detection-result"
    /\ http.status = 200
    /\ Len(http.req.results) > PreviewSize
    /\ Len(ImageRowsOf(db, "detect", http.id[1])) = Len(http.req.results)
    /\ http.id[1] > 1

OtherType(type) == IF type = "detect" THEN "cluster" ELSE "detect"

\* C28: a delete-result request with id X and type T leaves the summary
\* table of the other type as it was, keeps every task_images row that is
\* not tagged (X, T), in particular those tagged (X, other type), and
\* keeps every row of T's table with another id.
C28_DeleteLeavesOtherTypeAlone ==
    [][DeleteStep
       => LET X == http'.result_id
              T == IF http'.type = "detect" THEN "detect" ELSE "cluster"
              notTagged(r) == ~(r.task_db_id = X /\ r.task_type = T)
              otherId(r) == r.id # X
          IN /\ db'[TableOf(OtherType(T))] = db[TableOf(OtherType(T))]
             /\ ImageRowsOf(db', OtherType(T), X) = ImageRowsOf(db, OtherType(T), X)
             /\ SelectSeq(db'.task_images, notTagged)
                    = SelectSeq(db.task_images, notTagged)
             /\ db'[TableOf(T)] = SelectSeq(db[TableOf(T)], otherId)]_vars

\* a clustering result was deleted while the detection result with the same
\* id and its image rows are stored
C28_Witness ==
    /\ http.op = "delete-result"
    /\ http.type = "cluster"
    /\ http.status = 200
    /\ ~Stored(db, "cluster", http.result_id)
    /\ Stored(db, "detect", http.result_id)
    /\ ImagesOf(db, "detect", http.result_id) # {}
    /\ db.sqlite_sequence.task_images > Len(db.task_images)

SaveOps == {"save-cluster-result", "save-detection-result"}

SavedType(op) == IF op = "save-detection-result" THEN "detect" ELSE "cluster"

\* this step is a save request that was answered with the id of its record
SaveStep == http'.op \in SaveOps /\ db' # db /\ http'.status = 200

\* C29: over every sequence of saves and deletes, the id a save returns is
\* larger than every id its table holds or ever held (so larger than every
\* id returned before for the type, deleted or not), the largest id ever
\* given never decreases, and no task_images row carries the new (id, type)
\* before the save.
C29_IdsIncreaseAndAreNeverReused ==
    [][/\ \A T \in TaskTypes :
             db'.sqlite_sequence[TableOf(T)] >= db.sqlite_sequence[TableOf(T)]
       /\ SaveStep
          => LET T == SavedType(http'.op)
                 id == http'.id[1]
             IN /\ id > db.sqlite_sequence[TableOf(T)]
                /\ id = db'.sqlite_sequence[TableOf(T)]
                /\ \A k \in DOMAIN db[TableOf(T)] : db[TableOf(T)][k].id < id
                /\ \A X \in ResultIds : Deleted(db, T, X) => X < id
                /\ ImagesOf(db, T, id) = {}
                /\ Stored(db', T, id)]_vars

\* a clustering result was saved, with image rows, after the only earlier
\* clustering result had been deleted; its id is the second one
C29_Witness ==
    /\ http.op = "save-cluster-result"
    /\ http.status = 200
    /\ http.id = Some(2)
    /\ Deleted(db, "cluster", 1)
    /\ ImagesOf(db, "cluster", 2) # {}

---------------------------------------------------------------------------
(* Claims: enumeration of the directory by the detection paths *)

\* the files of the directory whose extension is one of exts, in lower or
\* in upper case
SupportedFiles(dir, exts) ==
    {f \in 1..dir.n :
        \E i \in DOMAIN exts : FileExt(f) \in {exts[i], UpperExt[exts[i]]}}

\* C30: POST /api/detect-images processes each distinct image file of the
\* directory exactly once: no path occurs twice in the results and total is
\* the number of distinct supported image files, also on a file system
\* where the lower-case and the upper-case pattern match the same file.
C30_EachFileProcessedOnce ==
    (http.op = "detect" /\ http.status = 200)
        => /\ \A i, j \in DOMAIN http.results :
                  i # j => http.results[i].path # http.results[j].path
           /\ http.total = Cardinality(SupportedFiles(fs, DetectExtensions))

---------------------------------------------------------------------------
(* scripts/dev.py: the dev orchestrator.  main() is a sequence of steps;   *)
(* each child process runs beside it and exits when it chooses, or after   *)
(* it was sent SIGTERM.  A signal to the orchestrator is handled between   *)
(* two steps of main().  dev.started and dev.exits record the order in     *)
(* which the children were started and in which they exited.               *)

MaxSignals == 1

\* what the orchestrator leaves alone
devFrame == <<fs, wsVars, http, db, now, pool, cli>>

\* os.kill-style return code of a child ended by SIGTERM
TermCode == -15

\* the exit codes a child chooses by itself
ExitCodes == {0, 1}

\* the exit codes of "npm install"
InstallCodes == {0, 1, 2}

NotStarted == [st |-> "none", term |-> FALSE, rc |-> None]

\* subprocess.Popen(cmd): the child runs
Popen == [st |-> "running", term |-> FALSE, rc |-> None]

\* p.poll(): None while the child runs, its return code afterwards
poll(p) == IF p.st = "exited" THEN p.rc ELSE None

\* p.terminate() when p.poll() is None
terminate(p) == IF poll(p) = None THEN [p EXCEPT !.term = TRUE] ELSE p

\* _shutdown(): for p in (web_proc, server_proc)
shutdown(d) == [d EXCEPT !.web = terminate(@), !.server = terminate(@)]

\* the install's result never counted as a failure
InstallFailedNever(returncode) == FALSE

\* install_proc.returncode != 0
InstallFailed(returncode) == returncode # 0

\* return sp if sp is not None else wp if wp is not None else 0
ReturnCode(d, sp, wp) ==
    IF sp # None THEN sp[1] ELSE IF wp # None THEN wp[1] ELSE 0

\* npm = _which("npm"); if not npm: return 1
DevWhich ==
    /\ dev.pc = "which"
    /\ dev' = IF dev.npm THEN [dev EXCEPT !.pc = "deps"]
              ELSE [dev EXCEPT !.pc = "done", !.ret = Some(1)]
    /\ UNCHANGED devFrame

\* if not os.path.isdir(node_modules_dir): subprocess.run(install_cmd)
DevInstall ==
    /\ dev.pc = "deps"
    /\ IF dev.node_modules
       THEN dev' = [dev EXCEPT !.pc = "start_server"]
       ELSE \E returncode \in InstallCodes :
               dev' = IF InstallFailed(returncode)
                      THEN [dev EXCEPT !.pc = "done", !.install = Some(returncode),
                                       !.ret = Some(returncode)]
                      ELSE [dev EXCEPT !.pc = "start_server",
                                       !.install = Some(returncode)]
    /\ UNCHANGED devFrame

\* server_proc = subprocess.Popen(server_cmd, cwd=root)
DevStartServer ==
    /\ dev.pc = "start_server"
    /\ dev' = [dev EXCEPT !.pc = "start_web", !.server = Popen,
                          !.started = Append(@, "server")]
    /\ UNCHANGED devFrame

\* web_proc = subprocess.Popen(web_cmd, cwd=root)
DevStartWeb ==
    /\ dev.pc = "start_web"
    /\ dev' = [dev EXCEPT !.pc = "handlers", !.web = Popen,
                          !.started = Append(@, "web")]
    /\ UNCHANGED devFrame

\* signal.signal(SIGINT, _shutdown); signal.signal(SIGTERM, _shutdown)
DevHandlers ==
    /\ dev.pc = "handlers"
    /\ dev' = [dev EXCEPT !.pc = "poll_server", !.handlers = TRUE]
    /\ UNCHANGED devFrame

\* sp = server_proc.poll()
DevPollServer ==
    /\ dev.pc = "poll_server"
    /\ dev' = [dev EXCEPT !.pc = "poll_web", !.sp = poll(dev.server)]
    /\ UNCHANGED devFrame

\* wp = web_proc.poll()
DevPollWeb ==
    /\ dev.pc = "poll_web"
    /\ dev' = [dev EXCEPT !.pc = "test", !.wp = poll(dev.web)]
    /\ UNCHANGED devFrame

\* if sp is not None or wp is not None: _shutdown(); return ...
DevTest ==
    /\ dev.pc = "test"
    /\ dev' = IF dev.sp # None \/ dev.wp # None
              THEN [shutdown(dev) EXCEPT !.pc = "done",
                        !.ret = Some(ReturnCode(dev, dev.sp, dev.wp))]
              ELSE [dev EXCEPT !.pc = "poll_server"]
    /\ UNCHANGED devFrame

\* SIGINT or SIGTERM reaches the orchestrator: _shutdown once the handlers
\* are installed, the default action (the run ends there) before
DevSignal ==
    /\ dev.pc \notin {"idle", "done", "interrupted"}
    /\ dev.signals < MaxSignals
    /\ dev' = IF dev.handlers
              THEN [shutdown(dev) EXCEPT !.signals = @ + 1]
              ELSE [dev EXCEPT !.pc = "interrupted", !.signals = @ + 1]
    /\ UNCHANGED devFrame

\* a child exits: by itself with a code of its own, or on SIGTERM
ChildExit(c) ==
    /\ dev[c].st = "running"
    /\ \E rc \in ExitCodes \cup {TermCode} :
          /\ rc = TermCode => dev[c].term
          /\ dev' = [dev EXCEPT ![c].st = "exited", ![c].rc = Some(rc),
                                !.exits = Append(@, c)]
    /\ UNCHANGED devFrame

ServerExit == ChildExit("server")

WebExit == ChildExit("web")

InitDev ==
    /\ fs = [n |-> 0, ci |-> FALSE, lab |-> <<>>]
    /\ http = [op |-> "none"]
    /\ DbIdle
    /\ WsIdle
    /\ pool = [pc |-> "idle"]
    /\ cli = [op |-> "none"]
    /\ \E npm \in BOOLEAN, node_modules \in BOOLEAN :
          dev = [pc |-> "which", npm |-> npm, node_modules |-> node_modules,
                 install |-> None, server |-> NotStarted, web |-> NotStarted,
                 handlers |-> FALSE, sp |-> None, wp |-> None, ret |-> None,
                 started |-> <<>>, exits |-> <<>>, signals |-> 0]

NextDev ==
    \/ DevWhich
    \/ DevInstall
    \/ DevStartServer
    \/ DevStartWeb
    \/ DevHandlers
    \/ DevPollServer
    \/ DevPollWeb
    \/ DevTest
    \/ DevSignal
    \/ ServerExit
    \/ WebExit

SpecDev == InitDev /\ [][NextDev]_vars

---------------------------------------------------------------------------
(* Claims: the dev orchestrator *)

BothStarted == dev.pc # "idle" /\ dev.started = <<"server", "web">>

\* C21: once both children are started and main() has returned, every child
\* that has not exited was sent SIGTERM and the value returned is the exit
\* code of the child that exited first, for every order of the children's
\* exits between the polls and around the signal handler.
C21_ReturnsCodeOfFirstExit ==
    (BothStarted /\ dev.pc = "done")
        => /\ \A c \in {"server", "web"} : dev[c].st = "running" => dev[c].term
           /\ dev.exits # <<>>
           /\ dev.ret = dev[dev.exits[1]].rc

\* C22: neither child is ever started when npm was not found, and main()
\* then returns 1, nor when the install was needed and failed, and main()
\* then returns the install's non-zero code; a child is started only after
\* npm was found and the dependencies were present or installed, the
\* backend first and the frontend after it.
C22_NoChildBeforeChecksPassed ==
    /\ dev.pc # "idle"
       => /\ dev.started \in {<<>>, <<"server">>, <<"server", "web">>}
          /\ (dev.server.st = "none") = ("server" \notin {dev.started[i] : i \in DOMAIN dev.started})
          /\ (dev.web.st = "none") = ("web" \notin {dev.started[i] : i \in DOMAIN dev.started})
          /\ dev.started # <<>>
             => /\ dev.npm
                /\ dev.node_modules \/ dev.install = Some(0)
          /\ (~dev.npm /\ dev.pc = "done")
             => dev.started = <<>> /\ dev.ret = Some(1)
          /\ (dev.install # None /\ dev.install # Some(0))
             => /\ dev.started = <<>>
                /\ ~dev.node_modules
                /\ dev.pc \in {"done", "interrupted"}
                /\ dev.pc = "done" => dev.ret = dev.install

\* npm was found, node_modules was absent and the install ended with code
\* 2: main() returned 2 and no child was started
C22_Witness ==
    /\ dev.pc = "done"
    /\ dev.npm
    /\ ~dev.node_modules
    /\ dev.install = Some(2)
    /\ dev.ret = Some(2)
    /\ dev.started = <<>>

---------------------------------------------------------------------------
(* scripts/generate_color_variants.py: generate_color_variants.  The       *)
(* executor's worker threads take the submitted indices in order; each     *)
(* runs _generate_single_variant, whose statements are interleaved with    *)
(* those of the other workers.  pool.items records, per index, what its    *)
(* worker did.                                                             *)

MaxItems == 2
MaxThreads == 2

\* what the generator leaves alone
poolFrame == <<fs, wsVars, http, db, now, dev, cli>>

\* str(uuid.uuid4())[:8] drawn for the item index: a value no other item
\* draws, or the value 1, which the first item draws too
UniqueIds(index) == {index + 1, 1}

Prefixes == {<<>>, <<"p">>}

\* f"{prefix}_variant_{index+1:04d}.png" if prefix else f"variant_{unique_id}.png"
FileName(prefix, index, unique_id) ==
    IF Truthy(prefix)
    THEN [stem |-> prefix \o <<"variant">>, tag |-> index + 1]
    ELSE [stem |-> <<"variant">>, tag |-> unique_id]

\* the appended path is dropped
ListAppendLost(list, x) == list

\* generated_files.append(output_path)
ListAppend(list, x) == Append(list, x)

Worker(w) == pool.workers[w]

\* a worker thread takes the next submitted index from the work queue
PoolTake(w) ==
    /\ pool.pc = "run"
    /\ Worker(w).pc = "idle"
    /\ pool.next < pool.num_variants
    /\ pool' = [pool EXCEPT !.next = @ + 1,
                            !.workers[w] = [pc |-> "render", index |-> pool.next,
                                            path |-> None]]
    /\ UNCHANGED poolFrame

\* generate_color_variant, hsv_to_bgr, generate_3d_bead and the file name:
\* an exception of any of them is caught by the worker
PoolRender(w) ==
    /\ Worker(w).pc = "render"
    /\ \/ \E unique_id \in UniqueIds(Worker(w).index) :
             pool' = [pool EXCEPT !.workers[w].pc = "write",
                         !.workers[w].path =
                             Some(FileName(pool.prefix, Worker(w).index, unique_id))]
       \/ pool' = [pool EXCEPT !.workers[w].pc = "except",
                       !.items[Worker(w).index + 1].status = "raised"]
    /\ UNCHANGED poolFrame

\* cv2.imwrite(output_path, image): its result is not looked at
PoolWrite(w) ==
    /\ Worker(w).pc = "write"
    /\ \E written \in BOOLEAN :
          pool' = [pool EXCEPT !.workers[w].pc = "print",
                      !.files = IF written THEN @ \cup {Worker(w).path[1]} ELSE @,
                      !.items[Worker(w).index + 1] =
                          [status |-> "ok", path |-> Worker(w).path,
                           written |-> written]]
    /\ UNCHANGED poolFrame

\* with print_lock: (entered from the try block or from the handler)
PoolAcquirePrint(w) ==
    /\ Worker(w).pc \in {"print", "except"}
    /\ pool.print_lock = 0
    /\ pool' = [pool EXCEPT !.print_lock = w,
                    !.workers[w].pc = IF Worker(w).pc = "print"
                                      THEN "printing" ELSE "reporting"]
    /\ UNCHANGED poolFrame

\* print(...) and the end of the with block; the handler returns ""
PoolReleasePrint(w) ==
    /\ Worker(w).pc \in {"printing", "reporting"}
    /\ pool' = [pool EXCEPT !.print_lock = 0,
                    !.workers[w] = IF Worker(w).pc = "printing"
                                   THEN [@ EXCEPT !.pc = "append"]
                                   ELSE [pc |-> "idle"]]
    /\ UNCHANGED poolFrame

\* with file_lock:
PoolAcquireFile(w) ==
    /\ Worker(w).pc = "append"
    /\ pool.file_lock = 0
    /\ pool' = [pool EXCEPT !.file_lock = w, !.workers[w].pc = "appending"]
    /\ UNCHANGED poolFrame

\* generated_files.append(output_path); return output_path
PoolAppend(w) ==
    /\ Worker(w).pc = "appending"
    /\ pool' = [pool EXCEPT !.file_lock = 0,
                    !.generated_files = ListAppend(@, Worker(w).path[1]),
                    !.workers[w] = [pc |-> "idle"]]
    /\ UNCHANGED poolFrame

\* the executor's with block ends when every future is done:
\* return generated_files
PoolReturn ==
    /\ pool.pc = "run"
    /\ pool.next = pool.num_variants
    /\ \A w \in DOMAIN pool.workers : Worker(w).pc = "idle"
    /\ pool' = [pool EXCEPT !.pc = "returned", !.result = Some(pool.generated_files)]
    /\ UNCHANGED poolFrame

InitPool ==
    /\ fs = [n |-> 0, ci |-> FALSE, lab |-> <<>>]
    /\ http = [op |-> "none"]
    /\ DbIdle
    /\ WsIdle
    /\ dev = [pc |-> "idle"]
    /\ cli = [op |-> "none"]
    /\ \E prefix \in Prefixes, num_variants \in 0..MaxItems, num_threads \in 1..MaxThreads :
          pool = [pc |-> "run", prefix |-> prefix, num_variants |-> num_variants,
                  next |-> 0,
                  workers |-> [w \in 1..num_threads |-> [pc |-> "idle"]],
                  print_lock |-> 0, file_lock |-> 0,
                  generated_files |-> <<>>, files |-> {},
                  items |-> [i \in 1..num_variants |-> [status |-> "pending"]],
                  result |-> None]

NextPool ==
    \/ \E w \in DOMAIN pool.workers : PoolTake(w)
    \/ \E w \in DOMAIN pool.workers : PoolRender(w)
    \/ \E w \in DOMAIN pool.workers : PoolWrite(w)
    \/ \E w \in DOMAIN pool.workers : PoolAcquirePrint(w)
    \/ \E w \in DOMAIN pool.workers : PoolReleasePrint(w)
    \/ \E w \in DOMAIN pool.workers : PoolAcquireFile(w)
    \/ \E w \in DOMAIN pool.workers : PoolAppend(w)
    \/ PoolReturn

SpecPool == InitPool /\ [][NextPool]_vars

---------------------------------------------------------------------------
(* Claims: the generators' worker pool *)

\* the indices (from 1) of the items whose worker did not raise
OkItems == {i \in DOMAIN pool.items : pool.items[i].status = "ok"}

PathOf(i) == pool.items[i].path[1]

Occurrences(list, x) == Cardinality({k \in DOMAIN list : list[k] = x})

\* the list returned holds one entry per item that did not raise, and no
\* other entry; every item was worked on
OnePathPerItem ==
    LET result == pool.result[1]
    IN /\ \A i \in DOMAIN pool.items : pool.items[i].status \in {"ok", "raised"}
       /\ Len(result) = Cardinality(OkItems)
       /\ \A k \in DOMAIN result : \E i \in OkItems : result[k] = PathOf(i)
       /\ \A i \in OkItems :
             Occurrences(result, PathOf(i))
                 = Cardinality({j \in OkItems : PathOf(j) = PathOf(i)})

---------------------------------------------------------------------------
(* scripts/cluster_images_by_color.py: the Directory Clustering CLI.  One  *)
(* run is one step; cli.files holds the reports the run had written when   *)
(* it ended, cli.outcome how it ended.                                     *)

\* what a command-line utility leaves alone
cliFrame == <<wsVars, http, db, now, dev, pool>>

\* the names the annotations of the module use, and the names it imports
\* from typing (line 12)
AnnotationNames == {"List", "Optional"}

TypingImports == {"List"}

\* the annotations of a def are evaluated when the def statement runs
\* ("eager"), or only when they are asked for ("deferred"): which one
\* depends on the interpreter
AnnotationModes == {"eager", "deferred"}

\* def cluster_images(..., output_dir: Optional[str] = None, ...)
ModuleLoads(mode) ==
    mode = "deferred" \/ AnnotationNames \subseteq TypingImports

\* the keys of a cluster's entry the two summary loops read with info['...']
\* (lab_std and de2000_std are left out of the engine's model)
SummaryKeys == {"count", "lab_mean", "de2000_mean", "de2000_max",
                "de2000_intra_mean", "de2000_intra_max", "images"}

\* os.path.join(image_dir, f"clustering_result_n{n_clusters}"), or the
\* directory given with --output_dir
OutputDir(output_dir, n_clusters) ==
    IF output_dir = None THEN [under |-> "image_dir", n |-> n_clusters]
    ELSE [under |-> output_dir[1], n |-> 0]

\* The outcomes of one run of the script with these arguments.
cluster_images_cli(dir, mode, n_clusters, output_dir) ==
    LET base == [op |-> "cluster-cli", mode |-> mode, n_clusters |-> n_clusters,
                 output_dir |-> None, files |-> {}, result_json |-> None]
    IN IF ~ModuleLoads(mode) THEN {base @@ [outcome |-> "NameError"]}
       ELSE LET image_paths_ ==
                    SortedSet(EnumerateImages(dir, ClusterExtensions))
                valid_paths == ValidPaths(dir, image_paths_)
                lab_vectors ==
                    [i \in 1..Len(valid_paths) |-> ExtractLab(dir, valid_paths[i])]
            IN IF Len(image_paths_) = 0
               THEN {base @@ [outcome |-> "no images"]}
               ELSE {IF "raised" \in DOMAIN e
                     THEN base @@ [outcome |-> e.raised]
                     ELSE LET inter_cluster_stats ==
                                  calculate_inter_cluster_distance(e.clusters)
                              written ==
                                  [base EXCEPT
                                      !.output_dir =
                                          Some(OutputDir(output_dir, n_clusters)),
                                      !.files = {"clustering_result.json"},
                                      !.result_json =
                                          Some([n_clusters |-> n_clusters,
                                                total_images |-> Len(valid_paths),
                                                inter_cluster_stats |->
                                                    inter_cluster_stats,
                                                clusters |-> e.clusters])]
                          IN IF \E c \in DOMAIN e.clusters :
                                   ~(SummaryKeys \subseteq DOMAIN e.clusters[c])
                             THEN written @@ [outcome |-> "KeyError"]
                             ELSE [written EXCEPT !.files =
                                       @ \cup {"clustering_summary.txt"}]
                                  @@ [outcome |-> "done"] :
                     e \in cluster_images_by_color_de2000(
                              lab_vectors, valid_paths, n_clusters)}

OutputDirs == {None, Some("out")}

\* python cluster_images_by_color.py image_dir n_clusters [--output_dir d]
CliClusterImages ==
    /\ cli.op = "none"
    /\ \E mode \in AnnotationModes, n_clusters \in 0..MaxClusters,
          output_dir \in OutputDirs :
          cli' \in cluster_images_cli(fs, mode, n_clusters, output_dir)
    /\ UNCHANGED fs
    /\ UNCHANGED cliFrame

InitCli ==
    /\ fs \in ClusterDirs
    /\ http = [op |-> "none"]
    /\ DbIdle
    /\ ScriptsIdle
    /\ WsIdle

NextCli == CliClusterImages

SpecCli == InitCli /\ [][NextCli]_vars

---------------------------------------------------------------------------
(* Claims: the Directory Clustering CLI *)

\* the number of files of the directory the CLI can read as images
ReadableImages(dir) ==
    Len(ValidPaths(dir, SortedSet(EnumerateImages(dir, ClusterExtensions))))

\* C25: a run of the Directory Clustering CLI on a directory with at least
\* n_clusters readable images, n_clusters >= 1, ends without an unhandled
\* error and has written clustering_result.json, with the membership and
\* the statistics of n_clusters clusters, and clustering_summary.txt to the
\* output directory, for every n_clusters up to and including the number
\* of images.
C25_WritesBothReports ==
    (cli.op = "cluster-cli" /\ cli.n_clusters >= 1
        /\ ReadableImages(fs) >= cli.n_clusters)
        => /\ cli.outcome = "done"
           /\ cli.files = {"clustering_result.json", "clustering_summary.txt"}
           /\ cli.output_dir # None
           /\ Len(cli.result_json[1].clusters) = cli.n_clusters

---------------------------------------------------------------------------
(* bead_classifier_mvp.py: the classifier prototype.  An image is a record *)
(* [n, px]: n rows and n columns, px[<<y, x>>] the pixel <<b, g, r>> of    *)
(* 8-bit channels.  One run of analyze_bead_color is one step.             *)

MaxSide == 3

Pixels(n) == (1..n) \X (1..n)

\* f itself, held as a table of its values (each stage of the pipeline is
\* computed once, not once per pixel that reads it)
Table(f) == f @@ <<>>

\* cv2.borderInterpolate(p, len, BORDER_REFLECT_101), 0-based p
RECURSIVE BorderInterpolate(_, _)
BorderInterpolate(p, len) ==
    IF len = 1 THEN 0
    ELSE IF p < 0 THEN BorderInterpolate(-p, len)
    ELSE IF p >= len THEN BorderInterpolate(2 * len - 2 - p, len)
    ELSE p

\* the kernel GaussianBlur uses for ksize 5 and sigma 0: [1, 4, 6, 4, 1] / 16
GaussianKernel == <<1, 4, 6, 4, 1>>

\* cv2.GaussianBlur(img, (5, 5), 0): the separable filter in fixed point,
\* rounded once at the end
GaussianBlur(img) ==
    [n |-> img.n,
     px |-> Table([p \in Pixels(img.n) |->
        [ch \in 1..3 |->
            (SeqSum([i \in 1..25 |->
                LET dy == (i - 1) \div 5
                    dx == (i - 1) % 5
                    y == BorderInterpolate(p[1] - 1 + dy - 2, img.n) + 1
                    x == BorderInterpolate(p[2] - 1 + dx - 2, img.n) + 1
                IN GaussianKernel[dy + 1] * GaussianKernel[dx + 1]
                       * img.px[<<y, x>>][ch]]) + 128) \div 256]])]

\* cvRound(n / d) for positive n, d (no quotient used below is a tie)
DivRound(n, d) == (2 * n + d) \div (2 * d)

Max3(a, b, c) == IF a >= b /\ a >= c THEN a ELSE IF b >= c THEN b ELSE c

Min3(a, b, c) == IF a <= b /\ a <= c THEN a ELSE IF b <= c THEN b ELSE c

\* cv2.cvtColor(., COLOR_BGR2HSV) on one 8-bit pixel: the table-driven
\* integer conversion (hsv_shift = 12, hue range 180)
BGR2HSV(bgr) ==
    LET b == bgr[1]
        g == bgr[2]
        r == bgr[3]
        v == Max3(b, g, r)
        diff == v - Min3(b, g, r)
        sdiv == IF v = 0 THEN 0 ELSE DivRound(255 * 4096, v)
        hdiv == IF diff = 0 THEN 0 ELSE DivRound(180 * 4096, 6 * diff)
        s == (diff * sdiv + 2048) \div 4096
        h0 == IF v = r THEN g - b
              ELSE IF v = g THEN b - r + 2 * diff
              ELSE r - g + 4 * diff
        h1 == (h0 * hdiv + 2048) \div 4096
        h == IF h1 < 0 THEN h1 + 180 ELSE h1
    IN <<h, s, v>>

cvtColor(img) ==
    [n |-> img.n, px |-> Table([p \in Pixels(img.n) |-> BGR2HSV(img.px[p])])]

\* cv2.threshold(src, thresh, 255, THRESH_BINARY) on one value
THRESH_BINARY(x, thresh) == IF x > thresh THEN 255 ELSE 0

\* cv2.threshold(src, thresh, 255, THRESH_BINARY_INV) on one value
THRESH_BINARY_INV(x, thresh) == IF x > thresh THEN 0 ELSE 255

SatThreshold == 30

ValThreshold == 245

\* lines 43-49: s_mask AND v_mask
ColorMask(hsv) ==
    Table([p \in Pixels(hsv.n) |->
        IF THRESH_BINARY(hsv.px[p][2], SatThreshold) = 255
           /\ THRESH_BINARY_INV(hsv.px[p][3], ValThreshold) = 255
        THEN 255 ELSE 0])

\* the pixels of the image under the 5x5 kernel anchored at p
Window(n, p) ==
    {q \in Pixels(n) : Abs(q[1] - p[1]) <= 2 /\ Abs(q[2] - p[2]) <= 2}

\* cv2.erode / cv2.dilate with np.ones((5, 5)): the border never wins
erode(n, mask) ==
    Table([p \in Pixels(n) |->
        IF \A q \in Window(n, p) : mask[q] = 255 THEN 255 ELSE 0])

dilate(n, mask) ==
    Table([p \in Pixels(n) |->
        IF \E q \in Window(n, p) : mask[q] = 255 THEN 255 ELSE 0])

\* cv2.morphologyEx(mask, op, kernel)
MORPH_OPEN(n, mask) == dilate(n, erode(n, mask))

MORPH_CLOSE(n, mask) == erode(n, dilate(n, mask))

\* the sum of channel ch of hsv over a set of pixels
RECURSIVE ChannelSum(_, _, _)
ChannelSum(hsv, ch, ps) ==
    IF ps = {} THEN 0
    ELSE LET p == CHOOSE q \in ps : TRUE
         IN hsv.px[p][ch] + ChannelSum(hsv, ch, ps \ {p})

\* lines 78-87 on mean_h = sum / count; cv2.mean over an empty mask is 0
Category(sum, count) ==
    LET num == IF count = 0 THEN 0 ELSE sum
        den == IF count = 0 THEN 1 ELSE count
    IN IF 35 * den <= num /\ num <= 85 * den THEN "Green"
       ELSE IF 100 * den <= num /\ num <= 130 * den THEN "Blue"
       ELSE IF (0 <= num /\ num <= 10 * den)
               \/ (160 * den <= num /\ num <= 179 * den) THEN "Red"
       ELSE IF 20 * den <= num /\ num <= 34 * den THEN "Yellow"
       ELSE "Unknown"

\* The outcome of analyze_bead_color on a file: file.img is None when the
\* file cannot be decoded.  input names the image the run was given.
analyze_bead_color(file, input) ==
    LET base == [op |-> "classify", input |-> input]
    IN IF ~file.exists THEN base @@ [outcome |-> "not found"]
       ELSE IF file.img = None THEN base @@ [outcome |-> "load failed"]
       ELSE LET img == file.img[1]
                blurred == GaussianBlur(img)
                hsv == cvtColor(blurred)
                final_mask ==
                    MORPH_CLOSE(img.n, MORPH_OPEN(img.n, ColorMask(hsv)))
                masked == {p \in Pixels(img.n) : final_mask[p] = 255}
            IN base @@ [outcome |-> "analysed",
                        count |-> Cardinality(masked),
                        sum_h |-> ChannelSum(hsv, 1, masked),
                        category |-> Category(ChannelSum(hsv, 1, masked),
                                              Cardinality(masked))]

PureGreen == <<0, 255, 0>>

\* BGR colours: pure green, a darker green, white, blue, red, yellow
Palette == {PureGreen, <<0, 200, 0>>, <<255, 255, 255>>,
            <<200, 0, 0>>, <<0, 0, 200>>, <<0, 200, 200>>}

\* an n x n image of colour bg with the rectangle top-left .. bottom-right
\* painted in colour fg
Painted(n, bg, fg, top, left, bottom, right) ==
    [n |-> n,
     px |-> Table([p \in Pixels(n) |->
        IF top <= p[1] /\ p[1] <= bottom /\ left <= p[2] /\ p[2] <= right
        THEN fg ELSE bg])]

\* python bead_classifier_mvp.py
ClassifyMissing ==
    /\ cli.op = "none"
    /\ cli' = analyze_bead_color([exists |-> FALSE, img |-> None],
                                 [n |-> 0])
    /\ UNCHANGED fs
    /\ UNCHANGED cliFrame

ClassifyUnreadable ==
    /\ cli.op = "none"
    /\ cli' = analyze_bead_color([exists |-> TRUE, img |-> None], [n |-> 0])
    /\ UNCHANGED fs
    /\ UNCHANGED cliFrame

ClassifyImage ==
    /\ cli.op = "none"
    /\ \E n \in 1..MaxSide, bg \in Palette, fg \in Palette :
       \E top \in 1..n, left \in 1..n :
       \E bottom \in top..n, right \in left..n :
          cli' = analyze_bead_color(
                     [exists |-> TRUE,
                      img |-> Some(Painted(n, bg, fg, top, left, bottom, right))],
                     [n |-> n, bg |-> bg, fg |-> fg,
                      rect |-> <<top, left, bottom, right>>])
    /\ UNCHANGED fs
    /\ UNCHANGED cliFrame

InitClassify ==
    /\ fs = [n |-> 0, ci |-> FALSE, lab |-> <<>>]
    /\ http = [op |-> "none"]
    /\ DbIdle
    /\ ScriptsIdle
    /\ WsIdle

NextClassify == ClassifyMissing \/ ClassifyUnreadable \/ ClassifyImage

SpecClassify == InitClassify /\ [][NextClassify]_vars

---------------------------------------------------------------------------
(* Claims: the classifier prototype *)

\* the run was given a uniform image of this colour
UniformInput(colour) ==
    /\ cli.op = "classify"
    /\ cli.outcome = "analysed"
    /\ \/ cli.input.bg = colour /\ cli.input.fg = colour
       \/ cli.input.fg = colour /\ cli.input.rect = <<1, 1, cli.input.n, cli.input.n>>

\* C23: on a uniform pure-green image, every pixel BGR (0, 255, 0), the
\* classifier computes a masked mean hue within [35, 85] and reports the
\* category "Green".
C23_PureGreenIsGreen ==
    UniformInput(PureGreen)
        => /\ cli.count > 0
           /\ 35 * cli.count <= cli.sum_h
           /\ cli.sum_h <= 85 * cli.count
           /\ cli.category = "Green"

---------------------------------------------------------------------------
(* scripts/generate_color_variants.py, generate_3d_bead (the same function *)
(* is in scripts/generate_random_color_circles.py).  The float32 image is  *)
(* computed pixel by pixel in fixed point: a real t is the integer         *)
(* t * Scale, rounded down, so a channel is exact to about one level in    *)
(* 255.                                                                    *)

Scale == 1000

\* the defaults of size and diameter
BeadSize == 200

BeadDiameter == 200

Clip(x, lo, hi) == IF x < lo THEN lo ELSE IF x > hi THEN hi ELSE x

\* the largest s in lo..hi with s * s <= n
RECURSIVE ISqrtIn(_, _, _)
ISqrtIn(n, lo, hi) ==
    IF lo >= hi THEN lo
    ELSE LET mid == (lo + hi + 1) \div 2
         IN IF mid * mid <= n THEN ISqrtIn(n, mid, hi)
            ELSE ISqrtIn(n, lo, mid - 1)

\* np.sqrt on a non-negative integer
ISqrt(n) == ISqrtIn(n, 0, 46340)

\* np.exp(-t) for t >= 0, t and the result scaled: exp(-1) per whole unit,
\* the series to the fourth power for the rest
RECURSIVE ExpNeg(_)
ExpNeg(t) ==
    IF t >= 20 * Scale THEN 0
    ELSE IF t >= Scale THEN (368 * ExpNeg(t - Scale)) \div Scale
    ELSE Scale - t + (t * t) \div (2 * Scale)
             - ((((t * t) \div Scale) * t) \div (6 * Scale))
             + ((((((t * t) \div Scale) * t) \div Scale) * t) \div (24 * Scale))

\* light_dir / np.linalg.norm(light_dir), lines 131-138
LightDir ==
    LET norm == ISqrt(300 * 300 + 500 * 500 + 800 * 800)
    IN <<(300 * Scale) \div norm, -((500 * Scale) \div norm),
         (800 * Scale) \div norm>>

\* lines 194-195
ShadowBlend(image, shadow_on_bg) ==
    LET shaded == (image * (Scale - shadow_on_bg)) \div Scale
    IN shaded + (shaded * 7) \div 10

\* the 8-bit value of one channel of the pixel in column x and row y, for
\* the base value c of the channel; the intensities are scaled
BeadPixel(size, diameter, c, highlight_intensity, shadow_intensity, x, y) ==
    LET cx == size \div 2
        cy == size \div 2
        radius == diameter \div 2
        d2 == (x - cx) * (x - cx) + (y - cy) * (y - cy)
        \* create_circular_mask
        inside == d2 <= radius * radius
        normalized_dist ==
            Clip(ISqrt(((d2 * Scale) \div (radius * radius)) * Scale), 0, Scale)
        gradient_factor == Scale - (normalized_dist * 3) \div 10
        gradient_color == c * gradient_factor
        x_norm == ((x - cx) * Scale) \div radius
        y_norm == ((y - cy) * Scale) \div radius
        z_norm ==
            LET under == Scale * Scale - x_norm * x_norm - y_norm * y_norm
            IN ISqrt(IF under < 0 THEN 0 ELSE under)
        dot_product ==
            (x_norm * LightDir[1] + y_norm * LightDir[2] + z_norm * LightDir[3])
                \div Scale
        lighting == Clip(dot_product \div 2 + Scale \div 2, Scale \div 5, Scale)
        lit0 == (gradient_color * lighting) \div Scale
        highlight_center_x == cx + (radius * 3) \div 10
        highlight_center_y == cy - (radius * 4) \div 10
        dh2 == (x - highlight_center_x) * (x - highlight_center_x)
               + (y - highlight_center_y) * (y - highlight_center_y)
        \* 2 * (highlight_radius * 0.5) ** 2 = radius ** 2 / 32
        highlight_factor ==
            (ExpNeg((32 * dh2 * Scale) \div (radius * radius))
                * highlight_intensity) \div Scale
        lit1 == (lit0 * (Scale - highlight_factor)) \div Scale
                + (255 * highlight_factor * highlight_factor) \div Scale
        \* shadow_y_coords * 10, and radius * 0.6 * 10
        sy10 == 10 * y - 10 * cy - 3 * radius
        shadow_factor ==
            IF sy10 > 0 /\ sy10 < 6 * radius
            THEN Clip(Scale - (sy10 * shadow_intensity) \div (6 * radius),
                      Scale - shadow_intensity, Scale)
            ELSE Scale
        lit2 == (lit1 * shadow_factor) \div Scale
        image0 == IF inside THEN lit2 ELSE 255 * Scale
        \* the projected shadow, lines 178-193
        dist_x == ((x - cx - 3) * 10 * Scale) \div (6 * radius)
        dist_y == ((10 * y - 10 * cy - 7 * radius) * Scale) \div (3 * radius)
        q == dist_x * dist_x + dist_y * dist_y
        shadow_value ==
            IF q <= Scale * Scale
            THEN (((ExpNeg(3 * ISqrt(q)) * shadow_intensity) \div Scale) * 3)
                     \div 10
            ELSE 0
        shadow_on_bg == IF inside THEN 0 ELSE shadow_value
        image1 == ShadowBlend(image0, shadow_on_bg)
    IN Clip(image1, 0, 255 * Scale) \div Scale

\* the pixel of all three channels
BeadColor(size, diameter, base_color, hi, si, x, y) ==
    [ch \in 1..3 |-> BeadPixel(size, diameter, base_color[ch], hi, si, x, y)]

\* The canvas corners and the bead centre of generate_3d_bead's image.
generate_3d_bead(size, diameter, base_color, hi, si) ==
    [corners |-> {BeadColor(size, diameter, base_color, hi, si, x, y) :
                     x \in {0, size - 1}, y \in {0, size - 1}},
     center |-> BeadColor(size, diameter, base_color, hi, si,
                          size \div 2, size \div 2)]

\* np.random.randint(30, 226): some values of the range, both ends included
ChannelValues == {30, 100, 128, 225}

BaseColors == ChannelValues \X ChannelValues \X ChannelValues

\* highlight_intensity and shadow_intensity, scaled: none, the defaults
\* 0.8 and 0.3, and full
HighlightIntensities == {0, (8 * Scale) \div 10, Scale}

ShadowIntensities == {0, (3 * Scale) \div 10, Scale}

\* generate_3d_bead(base_color=...) with a colour given by the caller
BeadGiven ==
    /\ cli.op = "none"
    /\ \E base_color \in BaseColors, hi \in HighlightIntensities,
          si \in ShadowIntensities :
          cli' = [op |-> "bead", given |-> TRUE, base_color |-> base_color,
                  highlight_intensity |-> hi, shadow_intensity |-> si]
                 @@ generate_3d_bead(BeadSize, BeadDiameter, base_color, hi, si)
    /\ UNCHANGED fs
    /\ UNCHANGED cliFrame

\* generate_3d_bead(base_color=None): the colour is drawn, lines 110-115
BeadRandom ==
    /\ cli.op = "none"
    /\ \E base_color \in BaseColors, hi \in HighlightIntensities,
          si \in ShadowIntensities :
          cli' = [op |-> "bead", given |-> FALSE, base_color |-> base_color,
                  highlight_intensity |-> hi, shadow_intensity |-> si]
                 @@ generate_3d_bead(BeadSize, BeadDiameter, base_color, hi, si)
    /\ UNCHANGED fs
    /\ UNCHANGED cliFrame

InitBead ==
    /\ fs = [n |-> 0, ci |-> FALSE, lab |-> <<>>]
    /\ http = [op |-> "none"]
    /\ DbIdle
    /\ ScriptsIdle
    /\ WsIdle

NextBead == BeadGiven \/ BeadRandom

SpecBead == InitBead /\ [][NextBead]_vars

---------------------------------------------------------------------------
(* Claims: the rendered bead *)

White == <<255, 255, 255>>

\* C24: generate_3d_bead on the default 200 x 200 canvas with diameter 200,
\* for a base colour with channels in [30, 225] and fixed highlight and
\* shadow intensities, leaves the four corner pixels of the canvas pure
\* white and renders the pixel at the centre of the bead strictly darker
\* than the base colour in every channel.
C24_CornersWhiteCenterDarker ==
    cli.op = "bead"
        => /\ cli.corners = {White}
           /\ \A ch \in 1..3 : cli.center[ch] < cli.base_color[ch]

====
